---------------------------- MODULE Spec2Model ----------------------------
(***************************************************************************)
(* Deccan Environmental Severity Dashboard (src/app.py): the sampling,     *)
(* environmental-data and severity-scoring pipeline and the session that   *)
(* runs it.                                                                *)
(*                                                                         *)
(* Number representation (TLC has integers only):                          *)
(*   - a coordinate is an integer number of 1e-4 degrees, so the table     *)
(*     entry 28.6139 is 286139;                                            *)
(*   - pm25, pm10, temp, hum and wind are integer tenths of their unit,    *)
(*     so 25.5 degrees C is 255 and the threshold "pm25 > 250" is          *)
(*     "pm25 > 2500";                                                      *)
(*   - a distance is an integer number of metres;                          *)
(***************************************************************************)
EXTENDS Integers, Sequences, FiniteSets, TLC


(***************************************************************************)
(* args and ret hold the calls of one function: the arguments, and what    *)
(* the calls returned so far.  They are used by the specifications that    *)
(* exercise one function.                                                  *)
(***************************************************************************)
VARIABLES args, ret

\* ret is << >> before the call and <<value>> after it.
Called == ret # << >>

Ret == ret[1]

HISTORICAL_DATA ==
  [ delhi |->
      [lat |-> 286139, lon |-> 772090, pm25 |-> 1530, pm10 |-> 2860, temp |-> 255, hum |-> 640, wind |-> 82,
       sources |-> [pm25 |-> "CPCB National Air Quality Index (2022-2024 avg)", pm10 |-> "CPCB National Air Quality Index (2022-2024 avg)", temp |-> "IMD Regional Weather Data (2022-2024 avg)", hum |-> "IMD Regional Weather Data (2022-2024 avg)", wind |-> "IMD Regional Weather Data (2022-2024 avg)"]],
    mumbai |->
      [lat |-> 190760, lon |-> 728777, pm25 |-> 730, pm10 |-> 1240, temp |-> 272, hum |-> 760, wind |-> 125,
       sources |-> [pm25 |-> "SAFAR Mumbai & MPCB (2022-2024 avg)", pm10 |-> "SAFAR Mumbai & MPCB (2022-2024 avg)", temp |-> "IMD Mumbai Regional Centre (2022-2024 avg)", hum |-> "IMD Mumbai Regional Centre (2022-2024 avg)", wind |-> "IMD Mumbai Regional Centre (2022-2024 avg)"]],
    kolkata |->
      [lat |-> 225726, lon |-> 883639, pm25 |-> 1120, pm10 |-> 1980, temp |-> 270, hum |-> 790, wind |-> 98,
       sources |-> [pm25 |-> "WBPCB & CPCB (2022-2024 avg)", pm10 |-> "WBPCB & CPCB (2022-2024 avg)", temp |-> "IMD Kolkata Regional Centre (2022-2024 avg)", hum |-> "IMD Kolkata Regional Centre (2022-2024 avg)", wind |-> "IMD Kolkata Regional Centre (2022-2024 avg)"]],
    chennai |->
      [lat |-> 130827, lon |-> 802707, pm25 |-> 580, pm10 |-> 950, temp |-> 291, hum |-> 740, wind |-> 112,
       sources |-> [pm25 |-> "TNPCB & CPCB (2022-2024 avg)", pm10 |-> "TNPCB & CPCB (2022-2024 avg)", temp |-> "IMD Chennai Regional Centre (2022-2024 avg)", hum |-> "IMD Chennai Regional Centre (2022-2024 avg)", wind |-> "IMD Chennai Regional Centre (2022-2024 avg)"]],
    bangalore |->
      [lat |-> 129716, lon |-> 775946, pm25 |-> 670, pm10 |-> 1030, temp |-> 248, hum |-> 620, wind |-> 75,
       sources |-> [pm25 |-> "KSPCB & SAFAR Bangalore (2022-2024 avg)", pm10 |-> "KSPCB & SAFAR Bangalore (2022-2024 avg)", temp |-> "IMD Bangalore Regional Centre (2022-2024 avg)", hum |-> "IMD Bangalore Regional Centre (2022-2024 avg)", wind |-> "IMD Bangalore Regional Centre (2022-2024 avg)"]],
    hyderabad |->
      [lat |-> 173850, lon |-> 784867, pm25 |-> 780, pm10 |-> 1340, temp |-> 275, hum |-> 580, wind |-> 89,
       sources |-> [pm25 |-> "TSPCB & CPCB (2022-2024 avg)", pm10 |-> "TSPCB & CPCB (2022-2024 avg)", temp |-> "IMD Hyderabad Regional Centre (2022-2024 avg)", hum |-> "IMD Hyderabad Regional Centre (2022-2024 avg)", wind |-> "IMD Hyderabad Regional Centre (2022-2024 avg)"]],
    ahmedabad |->
      [lat |-> 230225, lon |-> 725714, pm25 |-> 950, pm10 |-> 1670, temp |-> 278, hum |-> 550, wind |-> 91,
       sources |-> [pm25 |-> "GPCB & SAFAR Ahmedabad (2022-2024 avg)", pm10 |-> "GPCB & SAFAR Ahmedabad (2022-2024 avg)", temp |-> "IMD Ahmedabad Regional Centre (2022-2024 avg)", hum |-> "IMD Ahmedabad Regional Centre (2022-2024 avg)", wind |-> "IMD Ahmedabad Regional Centre (2022-2024 avg)"]],
    pune |->
      [lat |-> 185204, lon |-> 738567, pm25 |-> 820, pm10 |-> 1420, temp |-> 253, hum |-> 610, wind |-> 83,
       sources |-> [pm25 |-> "MPCB & SAFAR Pune (2022-2024 avg)", pm10 |-> "MPCB & SAFAR Pune (2022-2024 avg)", temp |-> "IMD Pune Regional Centre (2022-2024 avg)", hum |-> "IMD Pune Regional Centre (2022-2024 avg)", wind |-> "IMD Pune Regional Centre (2022-2024 avg)"]],
    jaipur |->
      [lat |-> 269124, lon |-> 757873, pm25 |-> 1180, pm10 |-> 2010, temp |-> 264, hum |-> 520, wind |-> 78,
       sources |-> [pm25 |-> "RSPCB & CPCB (2022-2024 avg)", pm10 |-> "RSPCB & CPCB (2022-2024 avg)", temp |-> "IMD Jaipur Regional Centre (2022-2024 avg)", hum |-> "IMD Jaipur Regional Centre (2022-2024 avg)", wind |-> "IMD Jaipur Regional Centre (2022-2024 avg)"]],
    lucknow |->
      [lat |-> 268467, lon |-> 809462, pm25 |-> 1360, pm10 |-> 2340, temp |-> 258, hum |-> 660, wind |-> 69,
       sources |-> [pm25 |-> "UPPCB & CPCB (2022-2024 avg)", pm10 |-> "UPPCB & CPCB (2022-2024 avg)", temp |-> "IMD Lucknow Regional Centre (2022-2024 avg)", hum |-> "IMD Lucknow Regional Centre (2022-2024 avg)", wind |-> "IMD Lucknow Regional Centre (2022-2024 avg)"]],
    kanpur |->
      [lat |-> 264499, lon |-> 803319, pm25 |-> 1620, pm10 |-> 2780, temp |-> 261, hum |-> 640, wind |-> 72,
       sources |-> [pm25 |-> "UPPCB & CPCB (2022-2024 avg)", pm10 |-> "UPPCB & CPCB (2022-2024 avg)", temp |-> "IMD Regional Weather Data (2022-2024 avg)", hum |-> "IMD Regional Weather Data (2022-2024 avg)", wind |-> "IMD Regional Weather Data (2022-2024 avg)"]],
    nagpur |->
      [lat |-> 211458, lon |-> 790882, pm25 |-> 910, pm10 |-> 1560, temp |-> 279, hum |-> 570, wind |-> 76,
       sources |-> [pm25 |-> "MPCB & CPCB (2022-2024 avg)", pm10 |-> "MPCB & CPCB (2022-2024 avg)", temp |-> "IMD Nagpur Regional Centre (2022-2024 avg)", hum |-> "IMD Nagpur Regional Centre (2022-2024 avg)", wind |-> "IMD Nagpur Regional Centre (2022-2024 avg)"]],
    patna |->
      [lat |-> 255941, lon |-> 851376, pm25 |-> 1450, pm10 |-> 2490, temp |-> 263, hum |-> 680, wind |-> 65,
       sources |-> [pm25 |-> "BSPCB & CPCB (2022-2024 avg)", pm10 |-> "BSPCB & CPCB (2022-2024 avg)", temp |-> "IMD Patna Regional Centre (2022-2024 avg)", hum |-> "IMD Patna Regional Centre (2022-2024 avg)", wind |-> "IMD Patna Regional Centre (2022-2024 avg)"]],
    indore |->
      [lat |-> 227196, lon |-> 758577, pm25 |-> 1040, pm10 |-> 1780, temp |-> 267, hum |-> 560, wind |-> 79,
       sources |-> [pm25 |-> "MPPCB & CPCB (2022-2024 avg)", pm10 |-> "MPPCB & CPCB (2022-2024 avg)", temp |-> "IMD Indore Regional Centre (2022-2024 avg)", hum |-> "IMD Indore Regional Centre (2022-2024 avg)", wind |-> "IMD Indore Regional Centre (2022-2024 avg)"]],
    bhopal |->
      [lat |-> 232599, lon |-> 774126, pm25 |-> 980, pm10 |-> 1680, temp |-> 259, hum |-> 600, wind |-> 74,
       sources |-> [pm25 |-> "MPPCB & CPCB (2022-2024 avg)", pm10 |-> "MPPCB & CPCB (2022-2024 avg)", temp |-> "IMD Bhopal Regional Centre (2022-2024 avg)", hum |-> "IMD Bhopal Regional Centre (2022-2024 avg)", wind |-> "IMD Bhopal Regional Centre (2022-2024 avg)"]],
    visakhapatnam |->
      [lat |-> 176868, lon |-> 832185, pm25 |-> 610, pm10 |-> 990, temp |-> 283, hum |-> 730, wind |-> 108,
       sources |-> [pm25 |-> "APPCB & CPCB (2022-2024 avg)", pm10 |-> "APPCB & CPCB (2022-2024 avg)", temp |-> "IMD Visakhapatnam Regional Centre (2022-2024 avg)", hum |-> "IMD Visakhapatnam Regional Centre (2022-2024 avg)", wind |-> "IMD Visakhapatnam Regional Centre (2022-2024 avg)"]],
    kochi |->
      [lat |-> 99312, lon |-> 762673, pm25 |-> 420, pm10 |-> 710, temp |-> 287, hum |-> 770, wind |-> 94,
       sources |-> [pm25 |-> "KSPCB (Kerala) & CPCB (2022-2024 avg)", pm10 |-> "KSPCB (Kerala) & CPCB (2022-2024 avg)", temp |-> "IMD Kochi Regional Centre (2022-2024 avg)", hum |-> "IMD Kochi Regional Centre (2022-2024 avg)", wind |-> "IMD Kochi Regional Centre (2022-2024 avg)"]],
    guwahati |->
      [lat |-> 261445, lon |-> 917362, pm25 |-> 880, pm10 |-> 1480, temp |-> 249, hum |-> 810, wind |-> 68,
       sources |-> [pm25 |-> "ASPCB & CPCB (2022-2024 avg)", pm10 |-> "ASPCB & CPCB (2022-2024 avg)", temp |-> "IMD Guwahati Regional Centre (2022-2024 avg)", hum |-> "IMD Guwahati Regional Centre (2022-2024 avg)", wind |-> "IMD Guwahati Regional Centre (2022-2024 avg)"]],
    morbi |->
      [lat |-> 228176, lon |-> 708121, pm25 |-> 850, pm10 |-> 1450, temp |-> 270, hum |-> 580, wind |-> 85,
       sources |-> [pm25 |-> "GPCB & Regional Interpolation (2022-2024 avg)", pm10 |-> "GPCB & Regional Interpolation (2022-2024 avg)", temp |-> "IMD Gujarat Regional Data (2022-2024 avg)", hum |-> "IMD Gujarat Regional Data (2022-2024 avg)", wind |-> "IMD Gujarat Regional Data (2022-2024 avg)"]],
    north_india |->
      [pm25 |-> 1280, pm10 |-> 2180, temp |-> 258, hum |-> 620, wind |-> 76,
       sources |-> [pm25 |-> "CPCB Regional Average North India (2022-2024)", pm10 |-> "CPCB Regional Average North India (2022-2024)", temp |-> "IMD Regional Average North India (2022-2024)", hum |-> "IMD Regional Average North India (2022-2024)", wind |-> "IMD Regional Average North India (2022-2024)"]],
    south_india |->
      [pm25 |-> 640, pm10 |-> 1040, temp |-> 278, hum |-> 710, wind |-> 98,
       sources |-> [pm25 |-> "CPCB Regional Average South India (2022-2024)", pm10 |-> "CPCB Regional Average South India (2022-2024)", temp |-> "IMD Regional Average South India (2022-2024)", hum |-> "IMD Regional Average South India (2022-2024)", wind |-> "IMD Regional Average South India (2022-2024)"]],
    east_india |->
      [pm25 |-> 1060, pm10 |-> 1810, temp |-> 264, hum |-> 750, wind |-> 82,
       sources |-> [pm25 |-> "CPCB Regional Average East India (2022-2024)", pm10 |-> "CPCB Regional Average East India (2022-2024)", temp |-> "IMD Regional Average East India (2022-2024)", hum |-> "IMD Regional Average East India (2022-2024)", wind |-> "IMD Regional Average East India (2022-2024)"]],
    west_india |->
      [pm25 |-> 870, pm10 |-> 1480, temp |-> 271, hum |-> 630, wind |-> 94,
       sources |-> [pm25 |-> "CPCB Regional Average West India (2022-2024)", pm10 |-> "CPCB Regional Average West India (2022-2024)", temp |-> "IMD Regional Average West India (2022-2024)", hum |-> "IMD Regional Average West India (2022-2024)", wind |-> "IMD Regional Average West India (2022-2024)"]],
    central_india |->
      [pm25 |-> 980, pm10 |-> 1680, temp |-> 269, hum |-> 580, wind |-> 77,
       sources |-> [pm25 |-> "CPCB Regional Average Central India (2022-2024)", pm10 |-> "CPCB Regional Average Central India (2022-2024)", temp |-> "IMD Regional Average Central India (2022-2024)", hum |-> "IMD Regional Average Central India (2022-2024)", wind |-> "IMD Regional Average Central India (2022-2024)"]] ]

CityOrder ==
  << "delhi", "mumbai", "kolkata", "chennai", "bangalore", "hyderabad", "ahmedabad", "pune", "jaipur", "lucknow", "kanpur", "nagpur", "patna", "indore", "bhopal", "visakhapatnam", "kochi", "guwahati", "morbi", "north_india", "south_india", "east_india", "west_india", "central_india" >>

\* str.title() on the keys of HISTORICAL_DATA.
title ==
  [ delhi |-> "Delhi",
    mumbai |-> "Mumbai",
    kolkata |-> "Kolkata",
    chennai |-> "Chennai",
    bangalore |-> "Bangalore",
    hyderabad |-> "Hyderabad",
    ahmedabad |-> "Ahmedabad",
    pune |-> "Pune",
    jaipur |-> "Jaipur",
    lucknow |-> "Lucknow",
    kanpur |-> "Kanpur",
    nagpur |-> "Nagpur",
    patna |-> "Patna",
    indore |-> "Indore",
    bhopal |-> "Bhopal",
    visakhapatnam |-> "Visakhapatnam",
    kochi |-> "Kochi",
    guwahati |-> "Guwahati",
    morbi |-> "Morbi",
    north_india |-> "North_India",
    south_india |-> "South_India",
    east_india |-> "East_India",
    west_india |-> "West_India",
    central_india |-> "Central_India" ]

(***************************************************************************)
(* Arithmetic helpers standing for Python built-ins and the math module.   *)
(***************************************************************************)
Abs(x) == IF x < 0 THEN -x ELSE x

Max(a, b) == IF a >= b THEN a ELSE b

Min(a, b) == IF a <= b THEN a ELSE b

RECURSIVE IsqrtIter(_, _, _)
IsqrtIter(n, lo, hi) ==
  IF lo >= hi THEN lo
  ELSE LET mid == (lo + hi + 1) \div 2
       IN IF mid * mid <= n THEN IsqrtIter(n, mid, hi)
                            ELSE IsqrtIter(n, lo, mid - 1)

\* math.sqrt, rounded down to an integer.
Isqrt(n) == IsqrtIter(n, 0, 46340)

\* math.cos of a latitude given in 1e-4 degrees, in thousandths, by
\* Bhaskara's rational approximation cos(d) = (32400 - 4d^2)/(32400 + d^2)
\* (d in degrees, error below 0.002 for |d| <= 90).
Cos1000(lat) ==
  LET d == Abs(lat) \div 100
  IN (324000000 - 4 * d * d) \div ((324000000 + d * d) \div 1000)

(***************************************************************************)
(* haversine: the great-circle distance in metres, R = 6371000, so one     *)
(* degree of arc is R*pi/180 = 111195 m.  The integer model uses the       *)
(* small-angle form of the same formula,                                   *)
(*    d = R * sqrt(dphi^2 + cos(phi1)*cos(phi2)*dlambda^2),                *)
(* at a resolution of 1 m when both differences are below 0.25 degrees     *)
(* and of 500 m otherwise (the squares have to fit 32-bit integers).       *)
(* It keeps what the callers rely on: it is 0 exactly for equal points,    *)
(* symmetric, and along a meridian it is linear in the latitude.           *)
(***************************************************************************)
haversine(lat1, lon1, lat2, lon2) ==
  LET dphi    == Abs(lat2 - lat1)
      dlambda == Abs(lon2 - lon1)
      c1      == Cos1000(lat1)
      c2      == Cos1000(lat2)
  IN IF dphi <= 2500 /\ dlambda <= 2500
     THEN LET y == (dphi * 111195) \div 10000
              x == (dlambda * 111195) \div 10000
          IN Isqrt(y * y + ((x * c1) \div 1000) * ((x * c2) \div 1000))
     ELSE LET y == (dphi * 222) \div 10000
              x == (dlambda * 222) \div 10000
          IN 500 * Isqrt(y * y + ((x * c1) \div 1000) * ((x * c2) \div 1000))

(***************************************************************************)
(* shapely: a LineString is the sequence of its coordinates <<x, y>>, a    *)
(* Point is the record [x, y].  LineString.length and interpolate work in  *)
(* the plane of the coordinates (here in 1e-4 degrees), not in metres.     *)
(***************************************************************************)
Point(x, y) == [x |-> x, y |-> y]

SegLength(a, b) ==
  Isqrt((b[1] - a[1]) * (b[1] - a[1]) + (b[2] - a[2]) * (b[2] - a[2]))

RECURSIVE LineLengthFrom(_, _)
LineLengthFrom(line, k) ==
  IF k >= Len(line) THEN 0
  ELSE SegLength(line[k], line[k + 1]) + LineLengthFrom(line, k + 1)

LineLength(line) == LineLengthFrom(line, 1)

\* The point at planar distance t from the start of segment k, walking on
\* to the next segment while t exceeds the segment's length.
RECURSIVE Walk(_, _, _)
Walk(line, k, t) ==
  LET a  == line[k]
      b  == line[k + 1]
      sl == SegLength(a, b)
  IN IF t <= sl \/ k + 1 >= Len(line)
     THEN IF sl = 0 THEN Point(a[1], a[2])
          ELSE Point(a[1] + ((b[1] - a[1]) * t) \div sl,
                     a[2] + ((b[2] - a[2]) * t) \div sl)
     ELSE Walk(line, k + 1, t - sl)

\* Mutant: normalized=True left out, the fraction num/den taken as a
\* distance in degrees (GEOS clamps it to the line's length).
interpolate_absolute(line, num, den) ==
  LET length == LineLength(line)
  IN IF length = 0 THEN Point(line[1][1], line[1][2])
     ELSE Walk(line, 1, Min((num * 10000) \div den, length))

\* line.interpolate(num/den, normalized=True).  On a line of length 0 GEOS
\* returns the first coordinate.
interpolate(line, num, den) ==
  LET length == LineLength(line)
  IN IF length = 0 THEN Point(line[1][1], line[1][2])
     ELSE Walk(line, 1, (num * length) \div den)

RECURSIVE total_m_from(_, _)
total_m_from(coords, i) ==
  IF i >= Len(coords) THEN 0
  ELSE haversine(coords[i][1], coords[i][2], coords[i + 1][1], coords[i + 1][2])
       + total_m_from(coords, i + 1)

\* Mutants of sample_points (each a plausible slip in line 506).
sample_points_plus2(line, spacing_m) ==
  LET total_m == total_m_from(line, 1)
      n       == Max(3, (total_m \div spacing_m) + 2)
  IN [i \in 1..n |-> interpolate(line, i - 1, n - 1)]

sample_points_min2(line, spacing_m) ==
  LET total_m == total_m_from(line, 1)
      n       == Max(2, (total_m \div spacing_m) + 1)
  IN [i \in 1..n |-> interpolate(line, i - 1, n - 1)]

sample_points_km(line, spacing_m) ==
  LET total_m == total_m_from(line, 1)
      n       == Max(3, (total_m \div (spacing_m * 1000)) + 1)
  IN [i \in 1..n |-> interpolate(line, i - 1, n - 1)]

sample_points_round(line, spacing_m) ==
  LET total_m == total_m_from(line, 1)
      n       == Max(3, ((2 * total_m + spacing_m) \div (2 * spacing_m)) + 1)
  IN [i \in 1..n |-> interpolate(line, i - 1, n - 1)]

sample_points_reversed(line, spacing_m) ==
  LET coords  == line
      total_m == total_m_from(coords, 1)
      n       == Max(3, (total_m \div spacing_m) + 1)
  IN [i \in 1..n |-> interpolate(line, n - i, n - 1)]

\* def sample_points(line, spacing_m)
sample_points(line, spacing_m) ==
  LET coords  == line
      total_m == total_m_from(coords, 1)
      n       == Max(3, (total_m \div spacing_m) + 1)
  IN [i \in 1..n |-> interpolate(line, i - 1, n - 1)]

(***************************************************************************)
(* Python values.  None is an integer outside every value range where a    *)
(* number is expected, NoneStr where a string is expected and NoneDict     *)
(* where a dict is expected.  Raised stands for an exception that left     *)
(* the function.                                                           *)
(*                                                                         *)
(* A local variable that is assigned once and read many times is written   *)
(* CHOOSE r \in {e(x) : x \in {v}} : TRUE, which is e(v) with v worked out  *)
(* once.                                                                   *)
(***************************************************************************)
None == -999999

NoneStr == "None"

NoneDict == [is_none |-> TRUE]

Raised == [raised |-> TRUE]

Keys == <<"pm25", "pm10", "temp", "hum", "wind">>

KeySet == {"pm25", "pm10", "temp", "hum", "wind"}

(***************************************************************************)
(* get_nearest_historical_data                                             *)
(***************************************************************************)
\* distances: the entries that have 'lat' and 'lon', in dict order.
distances(lat, lon) ==
  LET cities == SelectSeq(CityOrder,
                  LAMBDA c : /\ "lat" \in DOMAIN HISTORICAL_DATA[c]
                             /\ "lon" \in DOMAIN HISTORICAL_DATA[c])
  IN [k \in 1..Len(cities) |->
        [city |-> cities[k],
         dist |-> haversine(lat, lon, HISTORICAL_DATA[cities[k]].lat,
                                      HISTORICAL_DATA[cities[k]].lon)]]

\* sorted(..., key=lambda x: x[1]) is stable: an item goes after every
\* earlier item whose distance is not larger.
InsertByDist(item, s) ==
  LET k == Cardinality({j \in 1..Len(s) : s[j].dist <= item.dist})
  IN SubSeq(s, 1, k) \o <<item>> \o SubSeq(s, k + 1, Len(s))

RECURSIVE SortedPrefix(_, _)
SortedPrefix(items, k) ==
  IF k = 0 THEN << >>
  ELSE CHOOSE r \in {InsertByDist(items[k], s) : s \in {SortedPrefix(items, k - 1)}} : TRUE

sorted(items) == SortedPrefix(items, Len(items))

\* Mutant of nearest_cities: the slice taken from the far end, [-3:].
nearest_cities_farthest(lat, lon) ==
  CHOOSE nearest \in {SubSeq(sorted(items), Len(items) - 2, Len(items))
                        : items \in {distances(lat, lon)}} : TRUE

\* nearest = sorted(distances.items(), key=lambda x: x[1])[:3]
nearest_cities(lat, lon) ==
  CHOOSE nearest \in {SubSeq(sorted(items), 1, 3) : items \in {distances(lat, lon)}} : TRUE

\* Mutant of inverse_weight: the guard subtracted, 1/(d-1000).
inverse_weight_minus(d) == 100000000 \div (d - 1000)

\* Mutant of inverse_weight: the inverse is forgotten.
direct_weight(d) == (d + 1000) \div 1000

\* 1/(d+1000), as a fixed-point number with 8 decimal digits.
inverse_weight(d) == 100000000 \div (d + 1000)

\* weights = [1/(d+1000) for _, d in nearest]
weights_of(nearest) == [i \in 1..Len(nearest) |-> inverse_weight(nearest[i].dist)]

RECURSIVE SumSeq(_, _)
SumSeq(s, k) == IF k = 0 THEN 0 ELSE s[k] + SumSeq(s, k - 1)

sum(s) == SumSeq(s, Len(s))

\* Mutant of get_nearest_historical_data: the primary city taken from the
\* far end of nearest.
get_nearest_historical_data_lastcity(lat, lon) ==
  CHOOSE result \in {
    LET weights      == weights_of(nearest)
        total_weight == sum(weights)
        \* result[key] += data[key] * (weight / total_weight), over the 3 cities
        blend(key)   == sum([i \in 1..Len(nearest) |->
                               HISTORICAL_DATA[nearest[i].city][key] * weights[i]])
                          \div total_weight
        primary_city == nearest[Len(nearest)].city
    IN [pm25 |-> blend("pm25"), pm10 |-> blend("pm10"), temp |-> blend("temp"),
        hum |-> blend("hum"), wind |-> blend("wind"),
        source_detail |-> IF "sources" \in DOMAIN HISTORICAL_DATA[primary_city]
                          THEN HISTORICAL_DATA[primary_city].sources
                          ELSE << >>,
        \* the cities named in the "Interpolated from: ..." text
        interpolation_info |-> [i \in 1..Len(nearest) |-> title[nearest[i].city]],
        primary_source |-> title[primary_city]]
    : nearest \in {nearest_cities(lat, lon)} } : TRUE

get_nearest_historical_data(lat, lon) ==
  CHOOSE result \in {
    LET weights      == weights_of(nearest)
        total_weight == sum(weights)
        \* result[key] += data[key] * (weight / total_weight), over the 3 cities
        blend(key)   == sum([i \in 1..Len(nearest) |->
                               HISTORICAL_DATA[nearest[i].city][key] * weights[i]])
                          \div total_weight
        primary_city == nearest[1].city
    IN [pm25 |-> blend("pm25"), pm10 |-> blend("pm10"), temp |-> blend("temp"),
        hum |-> blend("hum"), wind |-> blend("wind"),
        source_detail |-> IF "sources" \in DOMAIN HISTORICAL_DATA[primary_city]
                          THEN HISTORICAL_DATA[primary_city].sources
                          ELSE << >>,
        \* the cities named in the "Interpolated from: ..." text
        interpolation_info |-> [i \in 1..Len(nearest) |-> title[nearest[i].city]],
        primary_source |-> title[primary_city]]
    : nearest \in {nearest_cities(lat, lon)} } : TRUE

(***************************************************************************)
(* The live providers.  An HTTP exchange is what requests.get(...).json()  *)
(* produced: [kind |-> "raise"] for a timeout, a connection error, a body  *)
(* that is not JSON or a body of the wrong shape (every one raises inside  *)
(* the try block), or [kind |-> "ok", ...] with the fields the code reads. *)
(*   OpenAQ:     measurements, the sequence of [parameter, value] of all   *)
(*               locations of r["results"] in order;                       *)
(*   WAQI:       status and iaqi = [pm25, pm10] (None: key absent);        *)
(*   Open-Meteo: temperature, windspeed (None: absent) and hourly, the     *)
(*               list r["hourly"]["relativehumidity_2m"] (empty: absent).  *)
(***************************************************************************)
values_of(measurements, parameter) ==
  LET sel == SelectSeq(measurements,
               LAMBDA m : m.parameter = parameter /\ m.value # None)
  IN [i \in 1..Len(sel) |-> sel[i].value]

\* np.mean of a non-empty list
mean(vals) == sum(vals) \div Len(vals)

\* Python truthiness of a number or None
truthy(v) == v # None /\ v # 0

\* The OpenAQ try block: the dict it returns, or NoneDict when it falls
\* through (no data, or an exception caught by "except Exception").
openaq_block(openaq) ==
  IF openaq.kind = "raise" THEN NoneDict
  ELSE LET pm25_vals == values_of(openaq.measurements, "pm25")
           pm10_vals == values_of(openaq.measurements, "pm10")
       IN IF Len(pm25_vals) > 0 \/ Len(pm10_vals) > 0
          THEN [pm25 |-> IF Len(pm25_vals) > 0 THEN mean(pm25_vals) ELSE None,
                pm10 |-> IF Len(pm10_vals) > 0 THEN mean(pm10_vals) ELSE None,
                source |-> "OpenAQ (Real-time)"]
          ELSE NoneDict

\* The WAQI try block, likewise.
waqi_block(waqi) ==
  IF waqi.kind = "raise" THEN NoneDict
  ELSE IF waqi.status = "ok" /\ (truthy(waqi.iaqi.pm25) \/ truthy(waqi.iaqi.pm10))
       THEN [pm25 |-> waqi.iaqi.pm25, pm10 |-> waqi.iaqi.pm10,
             source |-> "WAQI (Real-time)"]
       ELSE NoneDict

\* Mutant of get_air_quality_realtime: defaults instead of the final None.
get_air_quality_realtime_default(lat, lon, openaq, waqi) ==
  IF openaq_block(openaq) # NoneDict THEN openaq_block(openaq)
  ELSE IF waqi_block(waqi) # NoneDict THEN waqi_block(waqi)
  ELSE [pm25 |-> 0, pm10 |-> 0, source |-> "Default"]

\* def get_air_quality_realtime(lat, lon, timeout=5): OpenAQ first, WAQI
\* only when OpenAQ returned nothing, None when both did.
get_air_quality_realtime(lat, lon, openaq, waqi) ==
  IF openaq_block(openaq) # NoneDict THEN openaq_block(openaq)
  ELSE IF waqi_block(waqi) # NoneDict THEN waqi_block(waqi)
  ELSE NoneDict

\* Mutant of get_weather_realtime: no try/except around the request.
get_weather_realtime_uncaught(lat, lon, meteo) ==
  IF meteo.kind = "raise" THEN Raised
  ELSE LET hum_list == SelectSeq(SubSeq(meteo.hourly, 1, Min(24, Len(meteo.hourly))),
                                 LAMBDA h : h # None)
       IN IF meteo.temperature # None
          THEN [temp |-> meteo.temperature,
                hum |-> IF Len(hum_list) > 0 THEN mean(hum_list) ELSE None,
                wind |-> meteo.windspeed,
                source |-> "Open-Meteo (Real-time)"]
          ELSE NoneDict

\* def get_weather_realtime(lat, lon, timeout=5)
get_weather_realtime(lat, lon, meteo) ==
  IF meteo.kind = "raise" THEN NoneDict
  ELSE LET temp     == meteo.temperature
           wind     == meteo.windspeed
           hum_list == SelectSeq(SubSeq(meteo.hourly, 1, Min(24, Len(meteo.hourly))),
                                 LAMBDA h : h # None)
           hum      == IF Len(hum_list) > 0 THEN mean(hum_list) ELSE None
       IN IF temp # None
          THEN [temp |-> temp, hum |-> hum, wind |-> wind,
                source |-> "Open-Meteo (Real-time)"]
          ELSE NoneDict

\* Mutant of is_live_source: only the OpenAQ prefix is tested.
is_live_source_openaq(s) == s = "OpenAQ (Real-time)"

\* str.startswith(("OpenAQ", "WAQI", "Open-Meteo")) on the strings that
\* can be a source_<param>: the three provider labels start so, no
\* citation of HISTORICAL_DATA does.
is_live_source(s) ==
  s \in {"OpenAQ (Real-time)", "WAQI (Real-time)", "Open-Meteo (Real-time)"}

(***************************************************************************)
(* get_environmental_data(lat, lon, use_realtime).  aq_data and            *)
(* weather_data are what get_air_quality_realtime(lat, lon) and            *)
(* get_weather_realtime(lat, lon) return to it; they are read only when    *)
(* use_realtime holds.  An exception of either call propagates.            *)
(***************************************************************************)
get_environmental_data(lat, lon, use_realtime, aq_data, weather_data) ==
  CHOOSE result \in {
    LET from(key)  == IF key \in {"pm25", "pm10"} THEN aq_data ELSE weather_data
        \* result after the "if use_realtime:" block
        live(key)  == IF use_realtime /\ from(key) # NoneDict
                      THEN from(key)[key] ELSE None
        live_source(key) ==
                      IF live(key) # None THEN from(key).source ELSE NoneStr
        \* result after the "Fill missing data with historical" loop
        filled(key) == live(key) = None /\ key \in DOMAIN historical
        value(key)  == IF filled(key) THEN historical[key] ELSE live(key)
        source_of(key) ==
          IF filled(key) /\ live_source(key) = NoneStr
          THEN IF key \in DOMAIN historical.source_detail
               THEN historical.source_detail[key]
               ELSE "Historical: <primary_source> (2022-2024)"
          ELSE live_source(key)
        real_time_count  == Cardinality({k \in KeySet : is_live_source(source_of(k))})
        historical_count == 5 - real_time_count
        source == IF real_time_count > 0 /\ historical_count > 0
                  THEN <<"Hybrid", real_time_count, historical_count>>
                  ELSE IF real_time_count = 5
                  THEN <<"Real-time API Data">>
                  ELSE <<"Historical Data (2022-2024)", historical.primary_source>>
    IN IF use_realtime /\ (aq_data = Raised \/ weather_data = Raised)
       THEN Raised
       \* None.startswith raises AttributeError
       ELSE IF \E k \in KeySet : source_of(k) = NoneStr
       THEN Raised
       ELSE [pm25 |-> value("pm25"), pm10 |-> value("pm10"), temp |-> value("temp"),
             hum |-> value("hum"), wind |-> value("wind"),
             source |-> source,
             source_detail |-> << >>,
             source_pm25 |-> source_of("pm25"), source_pm10 |-> source_of("pm10"),
             source_temp |-> source_of("temp"), source_hum |-> source_of("hum"),
             source_wind |-> source_of("wind"),
             interpolation_info |-> historical.interpolation_info]
    : historical \in {get_nearest_historical_data(lat, lon)} } : TRUE

(***************************************************************************)
(* check_cyclone_zone: Polygon.contains(Point(lon, lat)) for the two       *)
(* polygons, by the even-odd rule on a ray towards +x.  A vertex is        *)
(* <<lat, lon>> as in the lists bay and arab; Polygon takes (p[1], p[0]).  *)
(***************************************************************************)
bay ==
  << <<215000, 890000>>, <<190000, 875000>>, <<150000, 845000>>, <<130000, 805000>>,
     <<120000, 780000>>, <<150000, 830000>>, <<180000, 860000>> >>

arab ==
  << <<230000, 675000>>, <<200000, 690000>>, <<160000, 725000>>, <<140000, 740000>>,
     <<125000, 740000>>, <<150000, 710000>>, <<190000, 685000>> >>

\* Whether the ray from (x, y) towards +x crosses the edge (x1,y1)-(x2,y2).
Crosses(x, y, x1, y1, x2, y2) ==
  /\ (y1 > y) # (y2 > y)
  /\ IF x < Min(x1, x2) THEN TRUE
     ELSE IF x >= Max(x1, x2) THEN FALSE
     ELSE IF y2 > y1 THEN (x - x1) * (y2 - y1) < (x2 - x1) * (y - y1)
                     ELSE (x - x1) * (y2 - y1) > (x2 - x1) * (y - y1)

contains(poly, x, y) ==
  LET n      == Len(poly)
      nxt(k) == IF k = n THEN 1 ELSE k + 1
      hits   == {k \in 1..n : Crosses(x, y, poly[k][2], poly[k][1],
                                            poly[nxt(k)][2], poly[nxt(k)][1])}
  IN Cardinality(hits) % 2 = 1

check_cyclone_zone(lat, lon) == contains(bay, lon, lat) \/ contains(arab, lon, lat)

(***************************************************************************)
(* check_lightning_risk: the first zone whose ranges hold the point.       *)
(***************************************************************************)
high_risk_zones ==
  << [lat_range |-> <<240000, 280000>>, lon_range |-> <<880000, 970000>>, risk |-> "High"],
     [lat_range |-> <<180000, 230000>>, lon_range |-> <<840000, 900000>>, risk |-> "High"],
     [lat_range |-> <<180000, 250000>>, lon_range |-> <<740000, 840000>>, risk |-> "Moderate"],
     [lat_range |-> <<80000, 200000>>, lon_range |-> <<730000, 770000>>, risk |-> "Moderate"] >>

RECURSIVE lightning_from(_, _, _)
lightning_from(lat, lon, k) ==
  IF k > Len(high_risk_zones) THEN "Low"
  ELSE LET zone == high_risk_zones[k]
       IN IF /\ zone.lat_range[1] <= lat /\ lat <= zone.lat_range[2]
             /\ zone.lon_range[1] <= lon /\ lon <= zone.lon_range[2]
          THEN zone.risk
          ELSE lightning_from(lat, lon, k + 1)

check_lightning_risk(lat, lon) == lightning_from(lat, lon, 1)

(***************************************************************************)
(* calculate_severity_score(row).  row.get(key) is None for a missing key. *)
(* The result score / max_score * 100 is kept in hundredths of a point     *)
(* (0..10000 for 0..100); with score and max_score whole numbers up to     *)
(* 100 no result lies strictly between a whole number and the next         *)
(* hundredth, so comparisons with whole thresholds are exact.              *)
(***************************************************************************)
dict_get(row, key, default) == IF key \in DOMAIN row THEN row[key] ELSE default

\* Mutant of pm25_points: the bands above 150 and above 100 exchanged.
pm25_points_dip(pm25) ==
  IF pm25 > 2500 THEN 25
  ELSE IF pm25 > 1500 THEN 18
  ELSE IF pm25 > 1000 THEN 22
  ELSE IF pm25 > 600 THEN 14
  ELSE IF pm25 > 350 THEN 10
  ELSE 5

pm25_points(pm25) ==
  IF pm25 > 2500 THEN 25
  ELSE IF pm25 > 1500 THEN 22
  ELSE IF pm25 > 1000 THEN 18
  ELSE IF pm25 > 600 THEN 14
  ELSE IF pm25 > 350 THEN 10
  ELSE 5

\* Mutant of temp_points: no points for a temperature in the mid-range.
temp_points_zero(temp) ==
  IF temp > 480 \/ temp < -50 THEN 20
  ELSE IF temp > 430 \/ temp < 0 THEN 16
  ELSE IF temp > 380 \/ temp < 50 THEN 12
  ELSE IF temp > 330 \/ temp < 100 THEN 8
  ELSE 0

temp_points(temp) ==
  IF temp > 480 \/ temp < -50 THEN 20
  ELSE IF temp > 430 \/ temp < 0 THEN 16
  ELSE IF temp > 380 \/ temp < 50 THEN 12
  ELSE IF temp > 330 \/ temp < 100 THEN 8
  ELSE 4

hum_points(hum) ==
  IF hum > 920 \/ hum < 150 THEN 15
  ELSE IF hum > 850 \/ hum < 250 THEN 12
  ELSE IF hum > 780 \/ hum < 350 THEN 9
  ELSE 5

wind_points(wind) ==
  IF wind > 600 THEN 20
  ELSE IF wind > 450 THEN 16
  ELSE IF wind > 300 THEN 12
  ELSE IF wind > 200 THEN 8
  ELSE 4

\* Mutant of calculate_severity_score: score is kept between calls (a
\* module-level accumulator that is not reset), max_score is not.
calculate_severity_score_carry(row) ==
  LET pm25 == dict_get(row, "pm25", None)
      temp == dict_get(row, "temp", None)
      hum  == dict_get(row, "hum", None)
      wind == dict_get(row, "wind", None)
      max_score == (IF pm25 # None THEN 25 ELSE 0)
                 + (IF temp # None THEN 20 ELSE 0)
                 + (IF hum # None THEN 15 ELSE 0)
                 + (IF wind # None THEN 20 ELSE 0)
                 + 20
      carried == IF ret = << >> THEN 0 ELSE (ret[1] * max_score) \div 10000
      score == carried
             + (IF pm25 # None THEN pm25_points(pm25) ELSE 0)
             + (IF temp # None THEN temp_points(temp) ELSE 0)
             + (IF hum # None THEN hum_points(hum) ELSE 0)
             + (IF wind # None THEN wind_points(wind) ELSE 0)
             + (IF dict_get(row, "cyclone_risk", FALSE) THEN 18 ELSE 2)
  IN IF max_score > 0 THEN (score * 10000) \div max_score ELSE 0

\* Mutant of calculate_severity_score: the score is taken over the full
\* weight 100 whatever parameters are present.
calculate_severity_score_fixed(row) ==
  LET pm25 == dict_get(row, "pm25", None)
      temp == dict_get(row, "temp", None)
      hum  == dict_get(row, "hum", None)
      wind == dict_get(row, "wind", None)
      score == (IF pm25 # None THEN pm25_points(pm25) ELSE 0)
             + (IF temp # None THEN temp_points(temp) ELSE 0)
             + (IF hum # None THEN hum_points(hum) ELSE 0)
             + (IF wind # None THEN wind_points(wind) ELSE 0)
             + (IF dict_get(row, "cyclone_risk", FALSE) THEN 18 ELSE 2)
      max_score == 100
  IN IF max_score > 0 THEN (score * 10000) \div max_score ELSE 0

\* Mutant of calculate_severity_score: the cyclone branches add their
\* points but not the weight 20 to max_score.
calculate_severity_score_noweight(row) ==
  LET pm25 == dict_get(row, "pm25", None)
      temp == dict_get(row, "temp", None)
      hum  == dict_get(row, "hum", None)
      wind == dict_get(row, "wind", None)
      score == (IF pm25 # None THEN pm25_points(pm25) ELSE 0)
             + (IF temp # None THEN temp_points(temp) ELSE 0)
             + (IF hum # None THEN hum_points(hum) ELSE 0)
             + (IF wind # None THEN wind_points(wind) ELSE 0)
             + (IF dict_get(row, "cyclone_risk", FALSE) THEN 18 ELSE 2)
      max_score == (IF pm25 # None THEN 25 ELSE 0)
                 + (IF temp # None THEN 20 ELSE 0)
                 + (IF hum # None THEN 15 ELSE 0)
                 + (IF wind # None THEN 20 ELSE 0)
  IN IF max_score > 0 THEN (score * 10000) \div max_score ELSE 0

calculate_severity_score(row) ==
  LET pm25 == dict_get(row, "pm25", None)
      temp == dict_get(row, "temp", None)
      hum  == dict_get(row, "hum", None)
      wind == dict_get(row, "wind", None)
      score == (IF pm25 # None THEN pm25_points(pm25) ELSE 0)
             + (IF temp # None THEN temp_points(temp) ELSE 0)
             + (IF hum # None THEN hum_points(hum) ELSE 0)
             + (IF wind # None THEN wind_points(wind) ELSE 0)
             + (IF dict_get(row, "cyclone_risk", FALSE) THEN 18 ELSE 2)
      max_score == (IF pm25 # None THEN 25 ELSE 0)
                 + (IF temp # None THEN 20 ELSE 0)
                 + (IF hum # None THEN 15 ELSE 0)
                 + (IF wind # None THEN 20 ELSE 0)
                 + 20
  IN IF max_score > 0 THEN (score * 10000) \div max_score ELSE 0

(***************************************************************************)
(* INSULATOR_SPECS and recommend_insulator.  temp_range and pollution_max  *)
(* are in tenths like temp and pm25, wind_max is in km/h, cost_factor in   *)
(* tenths; severity is in hundredths.                                      *)
(***************************************************************************)
INSULATOR_SPECS ==
  [ standard_ceramic |->
      [name |-> "Standard Ceramic Insulator", temp_range |-> <<-200, 450>>,
       pollution_max |-> 800, wind_max |-> 150, cost_factor |-> 10],
    toughened_glass |->
      [name |-> "Toughened Glass Insulator", temp_range |-> <<-400, 500>>,
       pollution_max |-> 1000, wind_max |-> 180, cost_factor |-> 13],
    polymer_composite |->
      [name |-> "Polymer Composite Insulator", temp_range |-> <<-500, 600>>,
       pollution_max |-> 1500, wind_max |-> 200, cost_factor |-> 18],
    anti_fog |->
      [name |-> "Anti-Fog Ceramic Insulator", temp_range |-> <<-300, 500>>,
       pollution_max |-> 1200, wind_max |-> 160, cost_factor |-> 15],
    hydrophobic |->
      [name |-> "Hydrophobic Silicone Insulator", temp_range |-> <<-500, 650>>,
       pollution_max |-> 1800, wind_max |-> 220, cost_factor |-> 22] ]

InsulatorOrder ==
  << "standard_ceramic", "toughened_glass", "polymer_composite", "anti_fog", "hydrophobic" >>

\* The "suitable" flag of one insulator type.  wind is in tenths of m/s, so
\* wind * 3.6 > wind_max (km/h) is wind * 36 > wind_max * 100.
suitable(spec, pm25, temp, wind) ==
  /\ temp # None => ~(temp < spec.temp_range[1] \/ temp > spec.temp_range[2])
  /\ pm25 # None => ~(pm25 > spec.pollution_max)
  /\ wind # None => ~(wind * 36 > spec.wind_max * 100)

\* recommendations.sort(key=cost_factor) is stable.
InsertByCost(item, s) ==
  LET k == Cardinality({j \in 1..Len(s) : s[j].cost_factor <= item.cost_factor})
  IN SubSeq(s, 1, k) \o <<item>> \o SubSeq(s, k + 1, Len(s))

RECURSIVE SortedByCost(_, _)
SortedByCost(items, k) ==
  IF k = 0 THEN << >> ELSE InsertByCost(items[k], SortedByCost(items, k - 1))

\* Mutant of recommend_insulator: the sort by cost_factor left out.
recommend_insulator_unsorted(severity, pm25, temp, wind, humidity) ==
  LET keys == SelectSeq(InsulatorOrder,
                LAMBDA key : suitable(INSULATOR_SPECS[key], pm25, temp, wind))
  IN [k \in 1..Len(keys) |->
        [type |-> keys[k],
         name |-> INSULATOR_SPECS[keys[k]].name,
         cost_factor |-> INSULATOR_SPECS[keys[k]].cost_factor,
         severity_match |-> IF keys[k] = "standard_ceramic"
                            THEN severity < 7000 ELSE TRUE]]

recommend_insulator(severity, pm25, temp, wind, humidity) ==
  LET keys == SelectSeq(InsulatorOrder,
                LAMBDA key : suitable(INSULATOR_SPECS[key], pm25, temp, wind))
      recommendations ==
        [k \in 1..Len(keys) |->
           [type |-> keys[k],
            name |-> INSULATOR_SPECS[keys[k]].name,
            cost_factor |-> INSULATOR_SPECS[keys[k]].cost_factor,
            severity_match |-> IF keys[k] = "standard_ceramic"
                               THEN severity < 7000 ELSE TRUE]]
  IN SortedByCost(recommendations, Len(recommendations))

(***************************************************************************)
(* Python floats.  "score / max_score * 100" (line 794) is an IEEE 754     *)
(* double division followed by a double multiplication, each rounded to    *)
(* the nearest double, ties to even.  A positive double is                 *)
(* [m |-> the 53 binary digits of its significand, most significant        *)
(* first, e |-> the exponent of the last digit]: the value is m * 2^e.     *)
(***************************************************************************)
Precision == 53

\* The binary digits of n >= 1, most significant first.
RECURSIVE Bits(_)
Bits(n) == IF n < 2 THEN <<n>> ELSE Append(Bits(n \div 2), n % 2)

Zeros(k) == [i \in 1..k |-> 0]

\* digits + 1; one digit longer when every digit is 1.
Inc(digits) ==
  LET zeros == {i \in 1..Len(digits) : digits[i] = 0}
      p     == CHOOSE i \in zeros : \A j \in zeros : j <= i
  IN IF zeros = {} THEN <<1>> \o Zeros(Len(digits))
     ELSE SubSeq(digits, 1, p - 1) \o <<1>> \o Zeros(Len(digits) - p)

\* The double nearest to digits * 2^e (ties to even), for at least 53
\* digits that start with 1; sticky says that the exact value has further
\* non-zero digits after the ones given.
round_to_double(digits, e, sticky) ==
  LET keep     == SubSeq(digits, 1, Precision)
      dropped  == Len(digits) - Precision
      guard    == IF dropped > 0 THEN digits[Precision + 1] ELSE 0
      rest     == sticky \/ \E i \in (Precision + 2)..Len(digits) : digits[i] = 1
      round_up == guard = 1 /\ (rest \/ keep[Precision] = 1)
      up       == Inc(keep)
  IN IF ~round_up THEN [m |-> keep, e |-> e + dropped]
     ELSE IF Len(up) = Precision THEN [m |-> up, e |-> e + dropped]
     ELSE [m |-> SubSeq(up, 1, Precision), e |-> e + dropped + 1]

\* float(n) of an integer 1 <= n < 2^31: exact.
float_from_int(n) ==
  [m |-> Bits(n) \o Zeros(Precision - Len(Bits(n))), e |-> Len(Bits(n)) - Precision]

\* s and d scaled by powers of two until 1 <= s/d < 2, with the power of
\* two taken out of s/d.
RECURSIVE Normalized(_, _, _)
Normalized(s, d, t) ==
  IF s >= 2 * d THEN Normalized(s, 2 * d, t + 1)
  ELSE IF s < d THEN Normalized(2 * s, d, t - 1)
  ELSE [s |-> s, d |-> d, t |-> t]

\* 2^i modulo d, by repeated squaring (d < 2^15).
RECURSIVE PowerOfTwoMod(_, _)
PowerOfTwoMod(i, d) ==
  IF i = 0 THEN 1 % d
  ELSE IF i % 2 = 1 THEN (2 * PowerOfTwoMod(i - 1, d)) % d
  ELSE LET half == PowerOfTwoMod(i \div 2, d) IN (half * half) % d

\* Long division: the first count binary digits of r/d after the point
\* (r < d); digit i is floor(2 * (r * 2^(i-1) mod d) / d).
QuotientDigits(r, d, count) ==
  [i \in 1..count |-> (2 * ((r * PowerOfTwoMod(i - 1, d)) % d)) \div d]

\* float(s) / float(d) for integers 1 <= s, d < 2^14.
float_div(s, d) ==
  LET n == Normalized(s, d, 0)
      r == n.s - n.d
  IN round_to_double(<<1>> \o QuotientDigits(r, n.d, Precision), n.t - Precision,
                     (r * PowerOfTwoMod(Precision, n.d)) % n.d # 0)

\* The number that binary digits (at most 30) stand for.
RECURSIVE Value(_)
Value(digits) ==
  IF digits = << >> THEN 0
  ELSE 2 * Value(SubSeq(digits, 1, Len(digits) - 1)) + digits[Len(digits)]

\* n < 2^width written in width binary digits.
Padded(n, width) == [i \in 1..width |-> (n \div (2 ^ (width - i))) % 2]

\* The digits of (53 digits) * k for an integer 1 <= k < 2^12, worked in
\* limbs of 17, 18 and 18 digits.
TimesDigits(digits, k) ==
  LET low    == Value(SubSeq(digits, 36, 53)) * k
      middle == Value(SubSeq(digits, 18, 35)) * k + low \div (2 ^ 18)
      high   == Value(SubSeq(digits, 1, 17)) * k + middle \div (2 ^ 18)
  IN Bits(high) \o Padded(middle % (2 ^ 18), 18) \o Padded(low % (2 ^ 18), 18)

\* x * k for a double x and an integer 1 <= k < 2^12.
float_times(x, k) == round_to_double(TimesDigits(x.m, k), x.e, FALSE)

\* score / max_score * 100
score_as_double(score, max_score) == float_times(float_div(score, max_score), 100)

\* calculate_severity_score with its return value as the double that
\* line 794 computes; calculate_severity_score gives the same value to
\* the nearest hundredth.
severity_score_double(row) ==
  LET pm25 == dict_get(row, "pm25", None)
      temp == dict_get(row, "temp", None)
      hum  == dict_get(row, "hum", None)
      wind == dict_get(row, "wind", None)
      score == (IF pm25 # None THEN pm25_points(pm25) ELSE 0)
             + (IF temp # None THEN temp_points(temp) ELSE 0)
             + (IF hum # None THEN hum_points(hum) ELSE 0)
             + (IF wind # None THEN wind_points(wind) ELSE 0)
             + (IF dict_get(row, "cyclone_risk", FALSE) THEN 18 ELSE 2)
      max_score == (IF pm25 # None THEN 25 ELSE 0)
                 + (IF temp # None THEN 20 ELSE 0)
                 + (IF hum # None THEN 15 ELSE 0)
                 + (IF wind # None THEN 20 ELSE 0)
                 + 20
  IN score_as_double(score, max_score)

(***************************************************************************)
(* State.                                                                  *)
(*   st.session_state: user_line (<< >> is None, else the LineString's     *)
(*     coordinates), analysis_df (<< >> is None, else the DataFrame's      *)
(*     rows) and data_source_log;                                          *)
(*   aq_cache, weather_cache: the @st.cache_data stores of                 *)
(*     get_air_quality_realtime and get_weather_realtime, sets of entries  *)
(*     [key |-> <<lat, lon>>, value |-> what the call returned];           *)
(*   data_source: the "Data Source Preference" radio as the last run read  *)
(*     it (index=2, Fast Mode, before any run);                            *)
(*   the analysis run: pc ("idle" or "loop"), use_realtime, pts, idx (rows *)
(*     done so far), data, and outcome, what the last run ended with       *)
(*     ("none", "completed" or "exception"); runs counts the runs started; *)
(*   report: what the current script run offers for download, << >> or the  *)
(*     kind of export with the DataFrame and the route it was made from;   *)
(*   analysis_route: the route whose sample points the rows of analysis_df *)
(*     were computed for;                                                  *)
(*   live_calls: for each cached function and arguments, how many times    *)
(*     the function body has run since the entry last expired;             *)
(*   expired: how many cache entries have expired so far.                  *)
(***************************************************************************)
VARIABLES user_line, analysis_df, data_source_log, aq_cache, weather_cache,
          pc, data_source, use_realtime, pts, idx, data, outcome, runs,
          report, analysis_route, live_calls, expired

session == <<user_line, analysis_df, data_source_log, aq_cache, weather_cache,
             pc, data_source, use_realtime, pts, idx, data, outcome, runs,
             report, analysis_route, live_calls, expired>>

vars == <<args, ret, session>>

\* Session State Initialization (lines 409-418), no run started.
SessionInit ==
  /\ user_line = << >>
  /\ analysis_df = << >>
  /\ data_source_log = << >>
  /\ aq_cache = {}
  /\ weather_cache = {}
  /\ pc = "idle"
  /\ data_source = "Fast Mode (Historical only)"
  /\ use_realtime = FALSE
  /\ pts = << >>
  /\ idx = 0
  /\ data = << >>
  /\ outcome = "none"
  /\ runs = 0
  /\ report = << >>
  /\ analysis_route = << >>
  /\ live_calls = {}
  /\ expired = 0

(***************************************************************************)
(* Inputs of the sampler: routes over a few vertices near Delhi.  V0 is    *)
(* the Delhi station; V1 and V2 lie 3.5 km and 7 km north of it on the     *)
(* same meridian, V3 lies east of V1.                                      *)
(***************************************************************************)
MaxVertices == 3

Vertices ==
  { <<286139, 772090>>, <<286454, 772090>>, <<286769, 772090>>, <<286454, 772600>> }

Routes == UNION { [1..k -> Vertices] : k \in 2..MaxVertices }

\* st.sidebar.number_input("Sample Spacing (m)", 1000, 20000, 3000, step=500)
Spacings == { 1000, 3000, 20000 }

(***************************************************************************)
(* Inputs of the data-source functions.                                    *)
(***************************************************************************)
StationCities ==
  {c \in DOMAIN HISTORICAL_DATA : "lat" \in DOMAIN HISTORICAL_DATA[c]}

\* Every station, the points 0.0045 degrees north (500 m), 0.008 degrees
\* east (under 900 m) and 0.0100 degrees north (1.1 km) of every station,
\* and the route vertices.
HistPoints ==
  UNION { { <<HISTORICAL_DATA[c].lat, HISTORICAL_DATA[c].lon>>,
            <<HISTORICAL_DATA[c].lat + 45, HISTORICAL_DATA[c].lon>>,
            <<HISTORICAL_DATA[c].lat, HISTORICAL_DATA[c].lon + 80>>,
            <<HISTORICAL_DATA[c].lat + 100, HISTORICAL_DATA[c].lon>> }
          : c \in StationCities }
    \cup Vertices

\* Delhi, a point 3.5 km north of it, and a point between Morbi and
\* Ahmedabad.
EnvPoints == { <<286139, 772090>>, <<286454, 772090>>, <<229200, 716900>> }

Measurement(parameter, value) == [parameter |-> parameter, value |-> value]

OpenAQOutcomes ==
  { [kind |-> "raise"],
    [kind |-> "ok", measurements |-> << >>],
    [kind |-> "ok", measurements |-> << Measurement("pm25", 400) >>],
    [kind |-> "ok", measurements |-> << Measurement("pm10", 900) >>],
    [kind |-> "ok", measurements |->
       << Measurement("pm25", 400), Measurement("pm10", 900), Measurement("pm25", 600) >>],
    [kind |-> "ok", measurements |->
       << Measurement("pm25", None), Measurement("o3", 300) >>] }

WAQIOutcomes ==
  { [kind |-> "raise"],
    [kind |-> "ok", status |-> "error", iaqi |-> [pm25 |-> None, pm10 |-> None]],
    [kind |-> "ok", status |-> "ok", iaqi |-> [pm25 |-> None, pm10 |-> None]],
    [kind |-> "ok", status |-> "ok", iaqi |-> [pm25 |-> 850, pm10 |-> None]],
    [kind |-> "ok", status |-> "ok", iaqi |-> [pm25 |-> None, pm10 |-> 1200]],
    [kind |-> "ok", status |-> "ok", iaqi |-> [pm25 |-> 850, pm10 |-> 1200]],
    [kind |-> "ok", status |-> "ok", iaqi |-> [pm25 |-> 0, pm10 |-> None]] }

MeteoOutcomes ==
  { [kind |-> "raise"],
    [kind |-> "ok", temperature |-> 312, windspeed |-> 120, hourly |-> <<600, 640>>],
    [kind |-> "ok", temperature |-> 312, windspeed |-> None, hourly |-> << >>],
    [kind |-> "ok", temperature |-> 312, windspeed |-> 120, hourly |-> <<None>>],
    [kind |-> "ok", temperature |-> None, windspeed |-> 120, hourly |-> <<600>>],
    [kind |-> "ok", temperature |-> None, windspeed |-> None, hourly |-> << >>] }

HistArgs ==
  { [op |-> "get_nearest_historical_data", lat |-> p[1], lon |-> p[2]] : p \in HistPoints }

EnvArgs ==
  { [op |-> "get_environmental_data", lat |-> p[1], lon |-> p[2],
     use_realtime |-> u, openaq |-> o, waqi |-> w, meteo |-> m]
    : p \in EnvPoints, u \in BOOLEAN, o \in OpenAQOutcomes,
      w \in WAQIOutcomes, m \in MeteoOutcomes }

EnvInit ==
  /\ args \in HistArgs \cup EnvArgs
  /\ ret = << >>
  /\ SessionInit

CallNearestHistorical ==
  /\ args.op = "get_nearest_historical_data"
  /\ ret = << >>
  /\ ret' = << get_nearest_historical_data(args.lat, args.lon) >>
  /\ UNCHANGED <<args, session>>

CallEnvironmentalData ==
  /\ args.op = "get_environmental_data"
  /\ ret = << >>
  /\ ret' = << get_environmental_data(args.lat, args.lon, args.use_realtime,
                 get_air_quality_realtime(args.lat, args.lon, args.openaq, args.waqi),
                 get_weather_realtime(args.lat, args.lon, args.meteo)) >>
  /\ UNCHANGED <<args, session>>

EnvNext == CallNearestHistorical \/ CallEnvironmentalData

SpecEnv == EnvInit /\ [][EnvNext]_vars

SampleInit ==
  /\ args \in [op : {"sample_points"}, line : Routes, spacing_m : Spacings]
  /\ ret = << >>
  /\ SessionInit

CallSamplePoints ==
  /\ args.op = "sample_points"
  /\ ret = << >>
  /\ ret' = << sample_points(args.line, args.spacing_m) >>
  /\ UNCHANGED <<args, session>>

SampleNext == CallSamplePoints

SpecSample == SampleInit /\ [][SampleNext]_vars

(***************************************************************************)
(* Inputs of calculate_severity_score: rows whose pm25, temp, hum and wind *)
(* are absent (None), negative, ordinary or extreme, with cyclone_risk     *)
(* True, False or missing from the row.                                    *)
(***************************************************************************)
ScoreValues ==
  [ pm25 |-> { None, -100, 0, 351, 2501, 100000 },
    temp |-> { None, -500, 250, 490 },
    hum  |-> { None, -10, 500, 1000 },
    wind |-> { None, -50, 100, 700 } ]

ScoreRows ==
  [pm25 : ScoreValues.pm25, temp : ScoreValues.temp,
   hum : ScoreValues.hum, wind : ScoreValues.wind]
  \cup
  [pm25 : ScoreValues.pm25, temp : ScoreValues.temp,
   hum : ScoreValues.hum, wind : ScoreValues.wind, cyclone_risk : BOOLEAN]

ScoreInit ==
  /\ args \in [op : {"calculate_severity_score"}, row : ScoreRows]
  /\ ret = << >>
  /\ SessionInit

CallSeverityScore ==
  /\ args.op = "calculate_severity_score"
  /\ ret = << >>
  /\ ret' = << calculate_severity_score(args.row) >>
  /\ UNCHANGED <<args, session>>

\* A second call with the same row; its result is put after the first.
CallSeverityScoreAgain ==
  /\ args.op = "calculate_severity_score"
  /\ Len(ret) = 1
  /\ ret' = Append(ret, calculate_severity_score(args.row))
  /\ UNCHANGED <<args, session>>

ScoreNext == CallSeverityScore \/ CallSeverityScoreAgain

SpecScore == ScoreInit /\ [][ScoreNext]_vars

(***************************************************************************)
(* The risk bands of a severity score (in hundredths), at every place the  *)
(* program bands a row: the map markers, the risk distribution of the      *)
(* summary, the PDF report and the Excel export.  A DataFrame is the       *)
(* sequence of its rows.                                                   *)
(***************************************************************************)
\* Mutant of marker_risk: the comparisons of the ladder made inclusive.
marker_risk_inclusive(severity) ==
  IF severity >= 7500 THEN "CRITICAL"
  ELSE IF severity >= 6000 THEN "HIGH"
  ELSE IF severity >= 4000 THEN "MODERATE"
  ELSE "LOW"

\* Lines 1364-1375: the risk named in a marker's popup.
marker_risk(severity) ==
  IF severity > 7500 THEN "CRITICAL"
  ELSE IF severity > 6000 THEN "HIGH"
  ELSE IF severity > 4000 THEN "MODERATE"
  ELSE "LOW"

\* Lines 1098-1113: the four "Risk Zones" metrics.
risk_distribution(df) ==
  [critical_points |-> Cardinality({i \in 1..Len(df) : df[i].severity_score > 7500}),
   high_points     |-> Cardinality({i \in 1..Len(df) :
                         df[i].severity_score > 6000 /\ df[i].severity_score <= 7500}),
   moderate_points |-> Cardinality({i \in 1..Len(df) :
                         df[i].severity_score > 4000 /\ df[i].severity_score <= 6000}),
   low_points      |-> Cardinality({i \in 1..Len(df) : df[i].severity_score <= 4000})]

\* Lines 1892-1895: the counts of the PDF's risk distribution.
pdf_risk_counts(df) ==
  [critical_count |-> Cardinality({i \in 1..Len(df) : df[i].severity_score > 7500}),
   high_count     |-> Cardinality({i \in 1..Len(df) :
                        df[i].severity_score > 6000 /\ df[i].severity_score <= 7500}),
   moderate_count |-> Cardinality({i \in 1..Len(df) :
                        df[i].severity_score > 4000 /\ df[i].severity_score <= 6000}),
   low_count      |-> Cardinality({i \in 1..Len(df) : df[i].severity_score <= 4000})]

\* Lines 1976 and 1984: the point_ids the PDF lists as critical and as
\* high risk zones.
pdf_zone_points(df) ==
  [critical_points |-> {df[i].point_id : i \in {j \in 1..Len(df) :
                          df[j].severity_score > 7500}},
   high_points     |-> {df[i].point_id : i \in {j \in 1..Len(df) :
                          df[j].severity_score > 6000 /\ df[j].severity_score <= 7500}}]

\* Lines 2185-2188: the four counts of the Excel summary sheet.
excel_risk_counts(df) ==
  << Cardinality({i \in 1..Len(df) : df[i].severity_score > 7500}),
     Cardinality({i \in 1..Len(df) :
       df[i].severity_score > 6000 /\ df[i].severity_score <= 7500}),
     Cardinality({i \in 1..Len(df) :
       df[i].severity_score > 4000 /\ df[i].severity_score <= 6000}),
     Cardinality({i \in 1..Len(df) : df[i].severity_score <= 4000}) >>

\* Lines 2216-2219: the 'Risk Level' of the rows of the "High Risk Zones"
\* sheet, by point_id.
excel_risk_zones(df) ==
  LET risk_zones == SelectSeq(df, LAMBDA row : row.severity_score > 6000)
  IN [k \in 1..Len(risk_zones) |->
        [point_id |-> risk_zones[k].point_id,
         risk_level |-> IF risk_zones[k].severity_score > 7500
                        THEN "CRITICAL" ELSE "HIGH"]]

(***************************************************************************)
(* Inputs of the banding: DataFrames of up to MaxRows rows with every      *)
(* parameter present, among them rows that score exactly 40, 60 and 75.    *)
(***************************************************************************)
MaxRows == 2

BandRow(pm25, temp, hum, wind, cyclone_risk) ==
  [pm25 |-> pm25, temp |-> temp, hum |-> hum, wind |-> wind,
   cyclone_risk |-> cyclone_risk]

BandRows ==
  { BandRow(100, 250, 500, 100, FALSE),     \* 20
    BandRow(400, 340, 900, 250, FALSE),     \* 40
    BandRow(400, 340, 800, 350, FALSE),     \* 41
    BandRow(700, 340, 900, 250, TRUE),      \* 60
    BandRow(700, 340, 800, 350, TRUE),      \* 61
    BandRow(100, 490, 900, 700, TRUE),      \* 75
    BandRow(1600, 490, 900, 100, TRUE),     \* 76
    BandRow(3000, 490, 950, 700, TRUE) }    \* 98

BandInputs == UNION { [1..k -> BandRows] : k \in 1..MaxRows }

\* The rows as the analysis loop scores and numbers them.
scored(rows) ==
  [i \in 1..Len(rows) |->
     [point_id |-> i, severity_score |-> calculate_severity_score(rows[i])]]

\* The options of the "Filter by Risk Level" multiselect (lines 1736-1740).
RiskFilterOptions == { "CRITICAL (>75)", "HIGH (60-75)", "MODERATE (40-60)", "LOW (<40)" }

\* The rows as the table sees them: scored, numbered, with cyclone_risk.
table_df(rows) ==
  [i \in 1..Len(rows) |->
     [point_id |-> i, severity_score |-> calculate_severity_score(rows[i]),
      cyclone_risk |-> rows[i].cyclone_risk]]

\* Mutant of table_filter: the LOW filter follows its label, "<40".
table_filter_label(df, risk_filter, show_cyclone_only) ==
  LET f1 == IF "CRITICAL (>75)" \notin risk_filter
            THEN SelectSeq(df, LAMBDA row : row.severity_score <= 7500) ELSE df
      f2 == IF "HIGH (60-75)" \notin risk_filter
            THEN SelectSeq(f1, LAMBDA row : row.severity_score <= 6000
                                            \/ row.severity_score > 7500) ELSE f1
      f3 == IF "MODERATE (40-60)" \notin risk_filter
            THEN SelectSeq(f2, LAMBDA row : row.severity_score <= 4000
                                            \/ row.severity_score > 6000) ELSE f2
      f4 == IF "LOW (<40)" \notin risk_filter
            THEN SelectSeq(f3, LAMBDA row : row.severity_score >= 4000) ELSE f3
  IN IF show_cyclone_only THEN SelectSeq(f4, LAMBDA row : row.cyclone_risk = TRUE) ELSE f4

\* Lines 1746-1758: filtered_df of the data table.
table_filter(df, risk_filter, show_cyclone_only) ==
  LET f1 == IF "CRITICAL (>75)" \notin risk_filter
            THEN SelectSeq(df, LAMBDA row : row.severity_score <= 7500) ELSE df
      f2 == IF "HIGH (60-75)" \notin risk_filter
            THEN SelectSeq(f1, LAMBDA row : row.severity_score <= 6000
                                            \/ row.severity_score > 7500) ELSE f1
      f3 == IF "MODERATE (40-60)" \notin risk_filter
            THEN SelectSeq(f2, LAMBDA row : row.severity_score <= 4000
                                            \/ row.severity_score > 6000) ELSE f2
      f4 == IF "LOW (<40)" \notin risk_filter
            THEN SelectSeq(f3, LAMBDA row : row.severity_score > 4000) ELSE f3
  IN IF show_cyclone_only THEN SelectSeq(f4, LAMBDA row : row.cyclone_risk = TRUE) ELSE f4

BandInit ==
  /\ args \in [op : {"risk_bands"}, rows : BandInputs]
              \cup [op : {"table_filter"}, rows : BandInputs,
                    risk_filter : SUBSET RiskFilterOptions,
                    show_cyclone_only : BOOLEAN]
  /\ ret = << >>
  /\ SessionInit

CallRiskBands ==
  /\ args.op = "risk_bands"
  /\ ret = << >>
  /\ \E df \in {scored(args.rows)} :
       ret' = << [df |-> df,
                  markers |-> [i \in 1..Len(df) |-> marker_risk(df[i].severity_score)],
                  summary |-> risk_distribution(df),
                  pdf_counts |-> pdf_risk_counts(df),
                  pdf_zones |-> pdf_zone_points(df),
                  excel_counts |-> excel_risk_counts(df),
                  excel_zones |-> excel_risk_zones(df)] >>
  /\ UNCHANGED <<args, session>>

CallTableFilter ==
  /\ args.op = "table_filter"
  /\ ret = << >>
  /\ \E df \in {table_df(args.rows)} :
       ret' = << [df |-> df,
                  filtered_df |-> table_filter(df, args.risk_filter,
                                               args.show_cyclone_only)] >>
  /\ UNCHANGED <<args, session>>

BandNext == CallRiskBands \/ CallTableFilter

SpecBand == BandInit /\ [][BandNext]_vars

(***************************************************************************)
(* The session: defining a route and running the corridor analysis.        *)
(***************************************************************************)
MaxRuns == 2

\* Cache entries that may expire in a session.
MaxExpiries == 2

\* coords_list of the "Enter coordinates" mode: one segment from Delhi to
\* the point 7 km north, or two segments that meet half way.
CoordsLists ==
  { << << <<286139, 772090>>, <<286769, 772090>> >> >>,
    << << <<286139, 772090>>, <<286454, 772090>> >>,
       << <<286454, 772090>>, <<286769, 772090>> >> >> }

\* coords_list with text that float() accepts but that is no position on
\* Earth: latitudes above 90 and below -90.
OutOfRangeCoordsLists ==
  { << << <<950000, 772090>>, <<950100, 772090>> >> >>,
    << << <<-910000, 772090>>, <<-910100, 772090>> >> >> }

\* geometry.coordinates of a drawn LineString, GeoJSON [lon, lat] positions.
Drawings ==
  { << <<772090, 286139>>, <<772090, 286769>> >> }

\* The "Data Source Preference" radio (lines 462-466).
DataSources ==
  { "Real-time (with fallback)", "Historical (2022-2024)",
    "Fast Mode (Historical only)" }

\* Mutant of contains_real_time: only Fast Mode switches the live data off.
contains_real_time_not_fast(choice) == choice # "Fast Mode (Historical only)"

\* "Real-time" in data_source
contains_real_time(choice) == choice = "Real-time (with fallback)"

\* Values of the "Sample Spacing (m)" input used in a session.
SampleSpacings == { 2000, 20000 }

\* What the three providers answer for one point.
HttpOutcomes ==
  { [openaq |-> [kind |-> "raise"], waqi |-> [kind |-> "raise"],
     meteo |-> [kind |-> "raise"]],
    [openaq |-> [kind |-> "ok", measurements |-> << Measurement("pm25", 400) >>],
     waqi |-> [kind |-> "raise"],
     meteo |-> [kind |-> "ok", temperature |-> 312, windspeed |-> None,
                hourly |-> << >>]],
    [openaq |-> [kind |-> "ok", measurements |-> << >>],
     waqi |-> [kind |-> "ok", status |-> "ok", iaqi |-> [pm25 |-> 850, pm10 |-> 1200]],
     meteo |-> [kind |-> "ok", temperature |-> 312, windspeed |-> 120,
                hourly |-> <<600, 640>>]] }

RECURSIVE extend_all(_, _)
extend_all(coords_list, k) ==
  IF k = 0 THEN << >> ELSE extend_all(coords_list, k - 1) \o coords_list[k]

\* Lines 941-954: the typed segments joined into one LineString, for a
\* coords_list of the set lists.
EnterCoordinatesFrom(lists) ==
  /\ pc = "idle"
  /\ \E coords_list \in lists :
       LET all_coords == extend_all(coords_list, Len(coords_list))
       IN user_line' = IF Len(all_coords) > 1 THEN all_coords ELSE user_line
  /\ UNCHANGED <<args, ret, analysis_df, data_source_log, aq_cache, weather_cache,
                 pc, data_source, use_realtime, pts, idx, data, outcome, runs,
                 analysis_route, live_calls, expired>>
  /\ report' = << >>

EnterCoordinates == EnterCoordinatesFrom(CoordsLists)

\* Lines 959-967: the first drawn LineString, its positions turned round.
DrawLine ==
  /\ pc = "idle"
  /\ \E coordinates \in Drawings :
       LET coords == [i \in 1..Len(coordinates) |->
                        <<coordinates[i][2], coordinates[i][1]>>]
       IN user_line' = coords
  /\ UNCHANGED <<args, ret, analysis_df, data_source_log, aq_cache, weather_cache,
                 pc, data_source, use_realtime, pts, idx, data, outcome, runs,
                 analysis_route, live_calls, expired>>
  /\ report' = << >>

\* Lines 984-998: "if apply and user_line", up to the start of the loop, for
\* a radio choice of the set choices and a spacing of the set spacings.
AnalyzeStartWith(choices, spacings) ==
  /\ pc = "idle"
  /\ user_line # << >>
  /\ runs < MaxRuns
  /\ \E choice \in choices, sample_m \in spacings :
       /\ data_source' = choice
       /\ use_realtime' = contains_real_time(choice)
       /\ pts' = sample_points(user_line, sample_m)
  /\ data_source_log' = << >>
  /\ data' = << >>
  /\ idx' = 0
  /\ pc' = "loop"
  /\ runs' = runs + 1
  /\ report' = << >>
  /\ UNCHANGED <<args, ret, user_line, analysis_df, aq_cache, weather_cache, outcome,
                 analysis_route, live_calls, expired>>

AnalyzeStart == AnalyzeStartWith(DataSources, SampleSpacings)

\* What get_air_quality_realtime appends to data_source_log (lines 551, 570,
\* 577, 592, 599); the coordinates of the first message and the marks and
\* exception texts of the others are left out.
air_quality_log(openaq, waqi) ==
  << "Attempting real-time AQ" >>
  \o (IF openaq.kind = "raise" THEN << "OpenAQ failed" >>
      ELSE IF openaq_block(openaq) # NoneDict
      THEN << "OpenAQ real-time data retrieved" >>
      ELSE << >>)
  \o (IF openaq_block(openaq) # NoneDict THEN << >>
      ELSE IF waqi.kind = "raise" THEN << "WAQI failed" >>
      ELSE IF waqi_block(waqi) # NoneDict
      THEN << "WAQI real-time data retrieved" >>
      ELSE << >>)

\* What get_weather_realtime appends (lines 606, 628, 636).
weather_log(meteo) ==
  << "Attempting real-time weather" >>
  \o (IF meteo.kind = "raise" THEN << "Open-Meteo failed" >>
      ELSE IF meteo.temperature # None
      THEN << "Open-Meteo real-time data retrieved" >>
      ELSE << >>)

\* Mutant of cached: an entry holding None does not count as a hit.
cached_unless_none(cache, key) == {e \in cache : e.key = key /\ e.value # NoneDict}

\* @st.cache_data: the stored return value of a call with these arguments.
cached(cache, key) == {e \in cache : e.key = key}

cache_value(cache, key) == (CHOOSE e \in cached(cache, key) : TRUE).value

\* live_calls after the body of function fn has run for key, if it has.
called(calls, fn, key, ran) ==
  IF ~ran THEN calls
  ELSE IF \E c \in calls : c.fn = fn /\ c.key = key
  THEN {IF c.fn = fn /\ c.key = key THEN [c EXCEPT !.calls = @ + 1] ELSE c : c \in calls}
  ELSE calls \cup {[fn |-> fn, key |-> key, calls |-> 1]}

\* Lines 1012-1044: the row of one sample point.
analysis_row(idx0, lat, lon, env_data) ==
  LET in_cyclone     == check_cyclone_zone(lat, lon)
      lightning_risk == check_lightning_risk(lat, lon)
      row == [point_id |-> idx0 + 1,
              lat |-> lat,
              lon |-> lon,
              pm25 |-> env_data.pm25,
              pm10 |-> env_data.pm10,
              temp |-> env_data.temp,
              hum |-> env_data.hum,
              wind |-> env_data.wind,
              cyclone_risk |-> in_cyclone,
              lightning_risk |-> lightning_risk,
              data_source |-> env_data.source,
              source_pm25 |-> env_data.source_pm25,
              source_pm10 |-> env_data.source_pm10,
              source_temp |-> env_data.source_temp,
              source_hum |-> env_data.source_hum,
              source_wind |-> env_data.source_wind,
              interpolation_info |-> env_data.interpolation_info]
      severity_score == calculate_severity_score(row)
      insulators == recommend_insulator(severity_score, row.pm25, row.temp,
                                        row.wind, row.hum)
  IN [point_id |-> row.point_id, lat |-> row.lat, lon |-> row.lon,
      pm25 |-> row.pm25, pm10 |-> row.pm10, temp |-> row.temp,
      hum |-> row.hum, wind |-> row.wind,
      cyclone_risk |-> row.cyclone_risk, lightning_risk |-> row.lightning_risk,
      data_source |-> row.data_source,
      source_pm25 |-> row.source_pm25, source_pm10 |-> row.source_pm10,
      source_temp |-> row.source_temp, source_hum |-> row.source_hum,
      source_wind |-> row.source_wind,
      interpolation_info |-> row.interpolation_info,
      severity_score |-> severity_score,
      recommended_insulator |->
        IF Len(insulators) > 0 THEN insulators[1].name ELSE "Custom Required",
      insulator_cost_factor |->
        IF Len(insulators) > 0 THEN insulators[1].cost_factor ELSE 25]

\* Mutant of AnalyzePoint: a point whose live requests all failed gets no
\* row.
AnalyzePoint_skip ==
  /\ pc = "loop"
  /\ idx < Len(pts)
  /\ \E http \in HttpOutcomes :
       LET p   == pts[idx + 1]
           lat == p.y
           lon == p.x
           key == <<lat, lon>>
           aq_hit      == cached(aq_cache, key) # {}
           weather_hit == cached(weather_cache, key) # {}
       IN \E aq_data \in {IF aq_hit THEN cache_value(aq_cache, key)
                          ELSE get_air_quality_realtime(lat, lon, http.openaq, http.waqi)},
             weather_data \in {IF weather_hit THEN cache_value(weather_cache, key)
                               ELSE get_weather_realtime(lat, lon, http.meteo)} :
          \E env_data \in {get_environmental_data(lat, lon, use_realtime,
                                                  aq_data, weather_data)} :
          LET aq_done      == use_realtime /\ aq_data # Raised
              weather_done == aq_done /\ weather_data # Raised
          IN
          /\ aq_cache' = IF aq_done /\ ~aq_hit
                         THEN aq_cache \cup {[key |-> key, value |-> aq_data]}
                         ELSE aq_cache
          /\ weather_cache' = IF weather_done /\ ~weather_hit
                              THEN weather_cache \cup {[key |-> key, value |-> weather_data]}
                              ELSE weather_cache
          /\ live_calls' =
               called(called(live_calls, "get_air_quality_realtime", key,
                             use_realtime /\ ~aq_hit),
                      "get_weather_realtime", key, aq_done /\ ~weather_hit)
          /\ data_source_log' =
               data_source_log
               \o (IF use_realtime /\ ~aq_hit
                   THEN air_quality_log(http.openaq, http.waqi) ELSE << >>)
               \o (IF aq_done /\ ~weather_hit
                   THEN weather_log(http.meteo) ELSE << >>)
          /\ IF env_data = Raised
             THEN /\ pc' = "idle"
                  /\ outcome' = "exception"
                  /\ UNCHANGED <<data, idx>>
             ELSE /\ data' = IF use_realtime /\ aq_data = NoneDict /\ weather_data = NoneDict
                             THEN data
                             ELSE Append(data, analysis_row(idx, lat, lon, env_data))
                  /\ idx' = idx + 1
                  /\ UNCHANGED <<pc, outcome>>
  /\ UNCHANGED <<args, ret, user_line, analysis_df, data_source, use_realtime,
                 pts, runs, report, analysis_route, expired>>

\* Lines 999-1047: one iteration of "for idx, p in enumerate(pts)".  The
\* two live calls are made only when use_realtime holds, and answered from
\* the cache when it has the arguments; an exception leaves the script run
\* (Streamlit shows it), with session_state as it is at that moment.
AnalyzePoint ==
  /\ pc = "loop"
  /\ idx < Len(pts)
  /\ \E http \in HttpOutcomes :
       LET p   == pts[idx + 1]
           lat == p.y
           lon == p.x
           key == <<lat, lon>>
           aq_hit      == cached(aq_cache, key) # {}
           weather_hit == cached(weather_cache, key) # {}
       IN \E aq_data \in {IF aq_hit THEN cache_value(aq_cache, key)
                          ELSE get_air_quality_realtime(lat, lon, http.openaq, http.waqi)},
             weather_data \in {IF weather_hit THEN cache_value(weather_cache, key)
                               ELSE get_weather_realtime(lat, lon, http.meteo)} :
          \E env_data \in {get_environmental_data(lat, lon, use_realtime,
                                                  aq_data, weather_data)} :
          LET aq_done      == use_realtime /\ aq_data # Raised
              weather_done == aq_done /\ weather_data # Raised
          IN
          /\ aq_cache' = IF aq_done /\ ~aq_hit
                         THEN aq_cache \cup {[key |-> key, value |-> aq_data]}
                         ELSE aq_cache
          /\ weather_cache' = IF weather_done /\ ~weather_hit
                              THEN weather_cache \cup {[key |-> key, value |-> weather_data]}
                              ELSE weather_cache
          /\ live_calls' =
               called(called(live_calls, "get_air_quality_realtime", key,
                             use_realtime /\ ~aq_hit),
                      "get_weather_realtime", key, aq_done /\ ~weather_hit)
          /\ data_source_log' =
               data_source_log
               \o (IF use_realtime /\ ~aq_hit
                   THEN air_quality_log(http.openaq, http.waqi) ELSE << >>)
               \o (IF aq_done /\ ~weather_hit
                   THEN weather_log(http.meteo) ELSE << >>)
          /\ IF env_data = Raised
             THEN /\ pc' = "idle"
                  /\ outcome' = "exception"
                  /\ UNCHANGED <<data, idx>>
             ELSE /\ data' = Append(data, analysis_row(idx, lat, lon, env_data))
                  /\ idx' = idx + 1
                  /\ UNCHANGED <<pc, outcome>>
  /\ UNCHANGED <<args, ret, user_line, analysis_df, data_source, use_realtime,
                 pts, runs, report, analysis_route, expired>>

\* Lines 1053-1054: df = pd.DataFrame(data) stored in the session.
AnalyzeFinish ==
  /\ pc = "loop"
  /\ idx = Len(pts)
  /\ analysis_df' = data
  /\ analysis_route' = user_line
  /\ pc' = "idle"
  /\ outcome' = "completed"
  /\ UNCHANGED <<args, ret, user_line, data_source_log, aq_cache, weather_cache,
                 data_source, use_realtime, pts, idx, data, runs, report, live_calls, expired>>

\* @st.cache_data(ttl=3600): an entry of either cache is an hour old and
\* is dropped; the next call with its arguments runs the function again.
ExpireEntry ==
  /\ expired < MaxExpiries
  /\ expired' = expired + 1
  /\ \/ \E e \in aq_cache :
          /\ aq_cache' = aq_cache \ {e}
          /\ live_calls' = {c \in live_calls :
                              ~(c.fn = "get_air_quality_realtime" /\ c.key = e.key)}
          /\ UNCHANGED weather_cache
     \/ \E e \in weather_cache :
          /\ weather_cache' = weather_cache \ {e}
          /\ live_calls' = {c \in live_calls :
                              ~(c.fn = "get_weather_realtime" /\ c.key = e.key)}
          /\ UNCHANGED aq_cache
  /\ UNCHANGED <<args, ret, user_line, analysis_df, data_source_log, pc, data_source,
                 use_realtime, pts, idx, data, outcome, runs, report, analysis_route>>

\* Lines 1781-2147: "PDF Report" pressed; the report is made from the
\* stored DataFrame when there is one, with the route now in the session.
GeneratePDF ==
  /\ pc = "idle"
  /\ report' = IF analysis_df # << >>
               THEN [kind |-> "pdf", df |-> analysis_df, user_line |-> user_line]
               ELSE << >>
  /\ UNCHANGED <<args, ret, user_line, analysis_df, data_source_log, aq_cache,
                 weather_cache, pc, data_source, use_realtime, pts, idx, data,
                 outcome, runs, analysis_route, live_calls, expired>>

\* Lines 2153-2353: "Excel Export" pressed.
GenerateExcel ==
  /\ pc = "idle"
  /\ report' = IF analysis_df # << >>
               THEN [kind |-> "excel", df |-> analysis_df, user_line |-> user_line]
               ELSE << >>
  /\ UNCHANGED <<args, ret, user_line, analysis_df, data_source_log, aq_cache,
                 weather_cache, pc, data_source, use_realtime, pts, idx, data,
                 outcome, runs, analysis_route, live_calls, expired>>

\* Lines 2423-2426 and, after st.rerun(), 409-418: every key of
\* st.session_state deleted and set again to its initial value.  The
\* caches of st.cache_data are not part of the session state.
ClearSessionState ==
  /\ pc = "idle"
  /\ user_line' = << >>
  /\ analysis_df' = << >>
  /\ data_source_log' = << >>
  /\ report' = << >>
  /\ analysis_route' = << >>
  /\ UNCHANGED <<args, ret, aq_cache, weather_cache, pc, data_source, use_realtime,
                 pts, idx, data, outcome, runs, live_calls, expired>>

Init ==
  /\ args = [op |-> "session"]
  /\ ret = << >>
  /\ SessionInit

Next ==
  \/ EnterCoordinates
  \/ DrawLine
  \/ AnalyzeStart
  \/ AnalyzePoint
  \/ AnalyzeFinish

Spec == Init /\ [][Next]_vars

\* The same session when the typed coordinates are out of range.
EnterOutOfRangeCoordinates == EnterCoordinatesFrom(OutOfRangeCoordsLists)

OutOfRangeNext ==
  \/ EnterOutOfRangeCoordinates
  \/ AnalyzeStart
  \/ AnalyzePoint
  \/ AnalyzeFinish

SpecOutOfRange == Init /\ [][OutOfRangeNext]_vars

(***************************************************************************)
(* The cache of the two live functions over several analysis runs of one   *)
(* route, with entries that expire.                                        *)
(***************************************************************************)
\* The route of these runs: one segment from Delhi to the point 7 km north.
CachedCoordsLists == { << << <<286139, 772090>>, <<286769, 772090>> >> >> }

EnterCachedCoordinates == EnterCoordinatesFrom(CachedCoordsLists)

AnalyzeCached == AnalyzeStartWith(DataSources, {20000})

CacheNext ==
  \/ EnterCachedCoordinates
  \/ AnalyzeCached
  \/ AnalyzePoint
  \/ AnalyzeFinish
  \/ ExpireEntry

SpecCache == Init /\ [][CacheNext]_vars

(***************************************************************************)
(* The interactions of a session: routes, analysis, the two exports and    *)
(* "Clear Session State".                                                  *)
(***************************************************************************)
\* Two routes apart from each other: 7 km north from Delhi, 7 km north
\* from Mumbai.
ExportCoordsLists ==
  { << << <<286139, 772090>>, <<286769, 772090>> >> >>,
    << << <<190760, 728777>>, <<191390, 728777>> >> >> }

EnterExportCoordinates == EnterCoordinatesFrom(ExportCoordsLists)

AnalyzeForExport == AnalyzeStartWith(DataSources, {20000})

ExportNext ==
  \/ EnterExportCoordinates
  \/ DrawLine
  \/ AnalyzeForExport
  \/ AnalyzePoint
  \/ AnalyzeFinish
  \/ GeneratePDF
  \/ GenerateExcel
  \/ ClearSessionState

SpecExport == Init /\ [][ExportNext]_vars

(***************************************************************************)
(* Inputs of the row of one sample point (lines 1012-1044): the resolved   *)
(* values of get_environmental_data, all five present, on both sides of    *)
(* the limits of INSULATOR_SPECS and across the scoring bands, at a point  *)
(* outside the cyclone zones (Delhi) and at one inside the Bay of Bengal   *)
(* zone.                                                                   *)
(***************************************************************************)
RowValues ==
  [ pm25 |-> { 300, 700, 800, 900, 1100, 1300, 1600, 1800, 2600 },
    temp |-> { -510, -100, 250, 470, 520, 620, 700 },
    hum  |-> { 500, 950 },
    wind |-> { 100, 350, 430, 460, 520, 580, 650 } ]

RowPoints == { <<286139, 772090>>, <<170000, 855000>> }

RowEnvData(pm25, temp, hum, wind) ==
  [pm25 |-> pm25, pm10 |-> 900, temp |-> temp, hum |-> hum, wind |-> wind,
   source |-> <<"Real-time API Data">>,
   source_pm25 |-> "OpenAQ (Real-time)", source_pm10 |-> "OpenAQ (Real-time)",
   source_temp |-> "Open-Meteo (Real-time)", source_hum |-> "Open-Meteo (Real-time)",
   source_wind |-> "Open-Meteo (Real-time)",
   interpolation_info |-> << >>]

RowArgs ==
  { [op |-> "analysis_row", idx |-> 0, lat |-> p[1], lon |-> p[2],
     env_data |-> RowEnvData(pm25, temp, hum, wind)]
    : p \in RowPoints, pm25 \in RowValues.pm25, temp \in RowValues.temp,
      hum \in RowValues.hum, wind \in RowValues.wind }

RowInit ==
  /\ args \in RowArgs
  /\ ret = << >>
  /\ SessionInit

CallAnalysisRow ==
  /\ args.op = "analysis_row"
  /\ ret = << >>
  /\ ret' = << analysis_row(args.idx, args.lat, args.lon, args.env_data) >>
  /\ UNCHANGED <<args, session>>

RowNext == CallAnalysisRow

SpecRow == RowInit /\ [][RowNext]_vars

(***************************************************************************)
(* Claims about sample_points, checked under SpecSample.                   *)
(***************************************************************************)
SampleCalled == args.op = "sample_points" /\ Called

\* total_m of the sampled route and floor(L / s).
RouteL == total_m_from(args.line, 1)

RouteK == RouteL \div args.spacing_m

\* Great-circle distance in metres between sample points i and i+1.
StepDist(i) == haversine(Ret[i].x, Ret[i].y, Ret[i + 1].x, Ret[i + 1].y)

NonDegenerate(line) == \A k \in 1..(Len(line) - 1) : line[k] # line[k + 1]

OnMeridian(line) == \A k \in 1..Len(line) : line[k][2] = line[1][2]

\* C2 as stated: a 2-point route of length L > 0 sampled at spacing s
\* yields exactly floor(L/s) + 2 points.
C2_Original ==
  (SampleCalled /\ Len(args.line) = 2 /\ RouteL > 0)
    => Len(Ret) = RouteK + 2

\* C2 amended: a 2-point route of length L > 0 sampled at spacing s yields
\* max(3, floor(L/s) + 1) points: 3 points while L < 3s, floor(L/s) + 1
\* from there on.
C2_PointCount ==
  (SampleCalled /\ Len(args.line) = 2 /\ RouteL > 0)
    => Len(Ret) = (IF RouteK >= 2 THEN RouteK + 1 ELSE 3)

C2_Witness ==
  /\ SampleCalled /\ Len(args.line) = 2 /\ RouteL > 0
  /\ RouteK >= 3
  /\ Len(Ret) = RouteK + 1

C4_Original ==
  (SampleCalled /\ Len(args.line) = 2 /\ args.line[1] = args.line[2])
    => Len(Ret) = 1

\* C4 amended: a route of exactly 2 identical points yields exactly 3
\* sample points, each equal to that point, for every spacing.
C4_DegenerateRoute ==
  (SampleCalled /\ Len(args.line) = 2 /\ args.line[1] = args.line[2])
    => /\ Len(Ret) = 3
       /\ \A i \in 1..Len(Ret) : Ret[i] = Point(args.line[1][1], args.line[1][2])

C4_Witness ==
  /\ SampleCalled /\ Len(args.line) = 2 /\ args.line[1] = args.line[2]
  /\ Len(Ret) = 3

\* Sample point p lies on the segment from vertex a to vertex b: inside
\* its bounding box and collinear with it, up to the one grid unit
\* (1e-4 degree) by which a coordinate is rounded.
OnSegment(p, a, b) ==
  /\ Min(a[1], b[1]) <= p.x /\ p.x <= Max(a[1], b[1])
  /\ Min(a[2], b[2]) <= p.y /\ p.y <= Max(a[2], b[2])
  /\ Abs((b[1] - a[1]) * (p.y - a[2]) - (b[2] - a[2]) * (p.x - a[1]))
       <= Abs(b[1] - a[1]) + Abs(b[2] - a[2])

\* How far p has advanced from the segment's start a.
Offset(p, a) == Abs(p.x - a[1]) + Abs(p.y - a[2])

\* Sample points i..Len(points) can be placed on the route, each on a
\* segment, at positions that never go back: point i on segment k or a
\* later one, and on segment k itself not before offset d.
RECURSIVE InRouteOrder(_, _, _, _, _)
InRouteOrder(points, line, i, k, d) ==
  IF i > Len(points) THEN TRUE
  ELSE \E j \in k..(Len(line) - 1) :
         /\ OnSegment(points[i], line[j], line[j + 1])
         /\ (j = k => Offset(points[i], line[j]) >= d)
         /\ InRouteOrder(points, line, i + 1, j, Offset(points[i], line[j]))

\* C17: sample_points emits its points in route order: the first point is
\* the first route vertex, the last point is the last route vertex, and
\* every point lies on a segment of the route at a position that is
\* non-decreasing along the route.
C17_RouteOrder ==
  SampleCalled =>
    /\ Ret[1] = Point(args.line[1][1], args.line[1][2])
    /\ Ret[Len(Ret)] = Point(args.line[Len(args.line)][1], args.line[Len(args.line)][2])
    /\ InRouteOrder(Ret, args.line, 1, 1, 0)

\* A three-vertex route with a corner (V0, V1, V3) was sampled at 1 km:
\* the points run up the first segment and then along the second.
C17_Witness ==
  /\ SampleCalled
  /\ args.line = << <<286139, 772090>>, <<286454, 772090>>, <<286454, 772600>> >>
  /\ args.spacing_m = 1000
  /\ Len(Ret) >= 5
  /\ \E i \in 2..(Len(Ret) - 1) : Ret[i].y > 772090
  /\ \E i \in 2..(Len(Ret) - 1) : Ret[i].x < 286454

\* Vertex k of the sampled route is one of the sample points.
VertexSampled(k) ==
  \E i \in 1..Len(Ret) : Ret[i] = Point(args.line[k][1], args.line[k][2])

\* Planar distance along the line from its start to vertex k.
RECURSIVE ArcTo(_, _)
ArcTo(line, k) ==
  IF k <= 1 THEN 0 ELSE ArcTo(line, k - 1) + SegLength(line[k - 1], line[k])

\* C18 (as stated): for a route with three or more vertices, every route
\* vertex appears among the sample points.
C18_Original ==
  (SampleCalled /\ Len(args.line) >= 3)
    => \A k \in 1..Len(args.line) : VertexSampled(k)

\* C18 (amended): the line is sampled as a whole at the fractions
\* i/(n-1) of its length.  For a route with three or more vertices the
\* first and the last vertex are sample points, and an interior vertex is
\* one whenever its distance along the line is a whole multiple of
\* length/(n-1); any other interior vertex may be skipped.
C18_VerticesOnTheGrid ==
  (SampleCalled /\ Len(args.line) >= 3)
    => /\ VertexSampled(1)
       /\ VertexSampled(Len(args.line))
       /\ \A k \in 2..(Len(args.line) - 1) :
            (ArcTo(args.line, k) * (Len(Ret) - 1)) % Max(1, LineLength(args.line)) = 0
              => VertexSampled(k)

\* The route V0, V1, V2 with two equal segments was sampled in three
\* points: the interior vertex V1 sits at fraction 1/2 and is a sample.
C18_Witness ==
  /\ SampleCalled
  /\ args.line = << <<286139, 772090>>, <<286454, 772090>>, <<286769, 772090>> >>
  /\ Len(Ret) = 3
  /\ Ret[2] = Point(286454, 772090)

\* C26: sample_points returns max(3, floor(total_m / spacing_m) + 1)
\* points for every route and spacing: at least 3, the start, at least one
\* point between and the end, even when the spacing is larger than the
\* whole route.
C26_AtLeastThreePoints ==
  SampleCalled =>
    /\ Len(Ret) = Max(3, RouteK + 1)
    /\ Len(Ret) >= 3
    /\ RouteL < args.spacing_m => Len(Ret) = 3
    /\ Ret[1] = Point(args.line[1][1], args.line[1][2])
    /\ Ret[Len(Ret)] = Point(args.line[Len(args.line)][1], args.line[Len(args.line)][2])
    /\ \A i \in 2..(Len(Ret) - 1) : \E k \in 1..(Len(args.line) - 1) :
         OnSegment(Ret[i], args.line[k], args.line[k + 1])

\* A three-vertex route of 8.5 km sampled at 20 km: three points, the
\* middle one away from both ends.
C26_Witness ==
  /\ SampleCalled
  /\ args.spacing_m = 20000
  /\ args.line = << <<286139, 772090>>, <<286454, 772090>>, <<286454, 772600>> >>
  /\ RouteL < args.spacing_m
  /\ Len(Ret) = 3
  /\ Ret[2] # Ret[1] /\ Ret[2] # Ret[3]

(***************************************************************************)
(* Claims about the data-source functions, checked under SpecEnv.          *)
(***************************************************************************)
HistCalled == args.op = "get_nearest_historical_data" /\ Called

EnvCalled == args.op = "get_environmental_data" /\ Called

\* The query point is less than 1000 m from station c.
Within1000m(c) ==
  haversine(args.lat, args.lon, HISTORICAL_DATA[c].lat, HISTORICAL_DATA[c].lon) < 1000

NearestOfQuery == nearest_cities(args.lat, args.lon)

WeightsOfQuery == weights_of(NearestOfQuery)

\* v lies between the smallest and the largest value of key over the three
\* nearest stations.
WithinNearest(key, v) ==
  /\ \E i \in 1..3 : HISTORICAL_DATA[NearestOfQuery[i].city][key] <= v
  /\ \E i \in 1..3 : HISTORICAL_DATA[NearestOfQuery[i].city][key] >= v

RequestFailed(x) == x.kind = "raise" \/ ("status" \in DOMAIN x /\ x.status = "error")

AllLiveRequestsFail ==
  RequestFailed(args.openaq) /\ RequestFailed(args.waqi) /\ RequestFailed(args.meteo)

Populated(r) == r # Raised /\ \A key \in KeySet : r[key] # None

\* C6: when every live request fails, get_environmental_data(lat, lon,
\* True) is fully populated and equals get_environmental_data(lat, lon,
\* False) in every value, every source_<param> and the overall source.
C6_AllFailEqualsHistorical ==
  (EnvCalled /\ args.use_realtime /\ AllLiveRequestsFail) =>
    /\ Populated(Ret)
    /\ Ret = get_environmental_data(args.lat, args.lon, FALSE, NoneDict, NoneDict)
    /\ \A key \in KeySet : Ret[key] = get_nearest_historical_data(args.lat, args.lon)[key]

C6_Witness ==
  /\ EnvCalled /\ args.use_realtime /\ AllLiveRequestsFail
  /\ args.waqi.kind = "ok"
  /\ Ret.source = <<"Historical Data (2022-2024)", "Delhi">>
  /\ Ret.source_pm25 = HISTORICAL_DATA["delhi"].sources.pm25

\* The non-null value a live response holds for key, None when no response
\* holds one.  WAQI is asked only when OpenAQ gave no pm25 and no pm10.
ResponseValue(key) ==
  IF key \in {"pm25", "pm10"}
  THEN IF openaq_block(args.openaq) # NoneDict
       THEN openaq_block(args.openaq)[key]
       ELSE IF args.waqi.kind = "ok" /\ args.waqi.status = "ok"
            THEN args.waqi.iaqi[key] ELSE None
  ELSE IF args.meteo.kind # "ok" THEN None
  ELSE IF key = "temp" THEN args.meteo.temperature
  ELSE IF key = "wind" THEN args.meteo.windspeed
  ELSE IF \E i \in 1..Len(args.meteo.hourly) : args.meteo.hourly[i] # None
       THEN mean(SelectSeq(args.meteo.hourly, LAMBDA h : h # None))
       ELSE None

\* C7 as stated: fallback is per parameter: a parameter for which a live
\* response holds a non-null value resolves to that value, whatever is
\* missing for the other parameters; only the missing ones come from the
\* historical table.
C7_Original ==
  (EnvCalled /\ args.use_realtime) =>
    \A key \in KeySet :
      /\ ResponseValue(key) # None => Ret[key] = ResponseValue(key)
      /\ ResponseValue(key) = None =>
           Ret[key] = get_nearest_historical_data(args.lat, args.lon)[key]

\* C8: whatever the three live requests do, get_environmental_data does
\* not raise and returns non-null pm25, pm10, temp, hum and wind.
C8_NeverRaisesFullyPopulated ==
  EnvCalled => Populated(Ret)

C8_Witness ==
  /\ EnvCalled /\ args.use_realtime
  /\ args.openaq.kind = "raise" /\ args.meteo.kind = "raise"
  /\ args.waqi.kind = "ok" /\ args.waqi.status = "ok" /\ args.waqi.iaqi.pm10 = None
  /\ Populated(Ret)
  /\ Ret.source_pm25 = "WAQI (Real-time)"
  /\ ~is_live_source(Ret.source_pm10)

\* What the live call for key returned to get_environmental_data: the dict
\* of get_air_quality_realtime for pm25 and pm10, of get_weather_realtime
\* for temp, hum and wind.
LiveDict(key) ==
  IF key \in {"pm25", "pm10"}
  THEN get_air_quality_realtime(args.lat, args.lon, args.openaq, args.waqi)
  ELSE get_weather_realtime(args.lat, args.lon, args.meteo)

\* The final value of key came from a live response.
FromLive(key) ==
  /\ args.use_realtime
  /\ LiveDict(key) # NoneDict
  /\ LiveDict(key)[key] # None

LiveKeys == {key \in KeySet : FromLive(key)}

ProviderLabels == {"OpenAQ (Real-time)", "WAQI (Real-time)", "Open-Meteo (Real-time)"}

HistoricalCitations ==
  UNION { {HISTORICAL_DATA[c].sources[key] : key \in KeySet} : c \in StationCities }

SourceOf(r, key) ==
  CASE key = "pm25" -> r.source_pm25
    [] key = "pm10" -> r.source_pm10
    [] key = "temp" -> r.source_temp
    [] key = "hum"  -> r.source_hum
    [] key = "wind" -> r.source_wind

\* C14: after get_environmental_data returns, every source_<param> is
\* non-null; it is the label of the live provider that supplied the value
\* exactly when the value came from a live response, and a citation of the
\* historical table otherwise; the overall source is 'Real-time API Data'
\* exactly when all five are live, 'Hybrid: r real-time, h historical' with
\* r the number of live ones and r + h = 5 exactly when some but not all
\* are live, and 'Historical Data ...' exactly when none is.
C14_SourceLabels ==
  EnvCalled =>
    /\ Ret # Raised
    /\ \A key \in KeySet :
         /\ SourceOf(Ret, key) # NoneStr
         /\ FromLive(key) <=> SourceOf(Ret, key) \in ProviderLabels
         /\ FromLive(key) => /\ SourceOf(Ret, key) = LiveDict(key).source
                             /\ Ret[key] = LiveDict(key)[key]
         /\ ~FromLive(key) => SourceOf(Ret, key) \in HistoricalCitations
    /\ Cardinality(LiveKeys) = 5 <=> Ret.source = <<"Real-time API Data">>
    /\ Cardinality(LiveKeys) \in 1..4
         <=> Ret.source = <<"Hybrid", Cardinality(LiveKeys), 5 - Cardinality(LiveKeys)>>
    /\ Cardinality(LiveKeys) \in 1..4 <=> Ret.source[1] = "Hybrid"
    /\ Cardinality(LiveKeys) = 0 <=> Ret.source[1] = "Historical Data (2022-2024)"

\* WAQI supplied pm25 only and Open-Meteo the temperature only: two live
\* parameters, three historical ones.
C14_Witness ==
  /\ EnvCalled
  /\ LiveKeys = {"pm25", "temp"}
  /\ Ret.source = <<"Hybrid", 2, 3>>
  /\ Ret.source_pm25 = "WAQI (Real-time)"
  /\ Ret.source_temp = "Open-Meteo (Real-time)"
  /\ Ret.source_wind \in HistoricalCitations

\* Distance in metres from the query point to station c.
DistTo(c) ==
  haversine(args.lat, args.lon, HISTORICAL_DATA[c].lat, HISTORICAL_DATA[c].lon)

\* The cities of the stations the call used.
UsedCities == {NearestOfQuery[i].city : i \in 1..Len(NearestOfQuery)}

\* w is 1/(d + 1000) in the 8-digit fixed point of the weights.
IsInverseWeight(w, d) ==
  w * (d + 1000) <= 100000000 /\ 100000000 < (w + 1) * (d + 1000)

\* sum(weight_i * value_i) / sum(weight_i) over the stations used.
WeightedMean(key) ==
  (WeightsOfQuery[1] * HISTORICAL_DATA[NearestOfQuery[1].city][key]
   + WeightsOfQuery[2] * HISTORICAL_DATA[NearestOfQuery[2].city][key]
   + WeightsOfQuery[3] * HISTORICAL_DATA[NearestOfQuery[3].city][key])
    \div (WeightsOfQuery[1] + WeightsOfQuery[2] + WeightsOfQuery[3])

\* C19: get_nearest_historical_data uses exactly the 3 stations with the
\* smallest distance to the query point (no unused station is nearer than
\* a used one), gives station i the weight 1/(distance_i + 1000), returns
\* for each of pm25, pm10, temp, hum, wind the value
\* sum(weight_i * value_i) / sum(weight_i), and a nearer station never
\* has a smaller weight than a farther one.
C19_NearestThreeBlend ==
  HistCalled =>
    /\ Len(NearestOfQuery) = 3
    /\ Cardinality(UsedCities) = 3
    /\ UsedCities \subseteq StationCities
    /\ \A i \in 1..3 : NearestOfQuery[i].dist = DistTo(NearestOfQuery[i].city)
    /\ \A c \in UsedCities : \A o \in StationCities \ UsedCities : DistTo(c) <= DistTo(o)
    /\ Ret.interpolation_info = [i \in 1..3 |-> title[NearestOfQuery[i].city]]
    /\ \A i \in 1..3 : IsInverseWeight(WeightsOfQuery[i], NearestOfQuery[i].dist)
    /\ \A key \in KeySet : Ret[key] = WeightedMean(key)
    /\ \A i, j \in 1..3 :
         NearestOfQuery[i].dist <= NearestOfQuery[j].dist
           => WeightsOfQuery[i] >= WeightsOfQuery[j]

\* A query 1.1 km north of a station: three stations at three different
\* distances, three different weights, the nearest the heaviest.
C19_Witness ==
  /\ HistCalled
  /\ NearestOfQuery[1].dist > 1000
  /\ NearestOfQuery[1].dist < NearestOfQuery[2].dist
  /\ NearestOfQuery[2].dist < NearestOfQuery[3].dist
  /\ WeightsOfQuery[1] > WeightsOfQuery[2]
  /\ WeightsOfQuery[2] > WeightsOfQuery[3]
  /\ Ret.pm25 = WeightedMean("pm25")

\* total_weight of the call.
TotalWeight == sum(WeightsOfQuery)

\* weight / total_weight of station i, in ten-thousandths.
NormalizedWeight(i) == (WeightsOfQuery[i] * 10000) \div TotalWeight

\* C20: in get_nearest_historical_data every weight and the total weight
\* are strictly positive for every query point, the distance 0 from a
\* station included; the three normalized weights sum to 1 (to the last
\* digit kept); and each returned value lies between the minimum and the
\* maximum of that parameter over the 3 selected stations.
C20_PositiveWeightConvexBlend ==
  HistCalled =>
    /\ \A i \in 1..3 : NearestOfQuery[i].dist >= 0 /\ WeightsOfQuery[i] > 0
    /\ TotalWeight > 0
    /\ NormalizedWeight(1) + NormalizedWeight(2) + NormalizedWeight(3) \in 9998..10000
    /\ \A key \in KeySet : WithinNearest(key, Ret[key])

\* The query is a station itself: distance exactly 0, weight 1/1000, and
\* the pm25 returned lies strictly inside the three stations' range.
C20_Witness ==
  /\ HistCalled
  /\ NearestOfQuery[1].dist = 0
  /\ WeightsOfQuery[1] = 100000
  /\ TotalWeight > WeightsOfQuery[1]
  /\ \E i \in 1..3 : HISTORICAL_DATA[NearestOfQuery[i].city].pm25 < Ret.pm25
  /\ \E i \in 1..3 : HISTORICAL_DATA[NearestOfQuery[i].city].pm25 > Ret.pm25

\* The entries of HISTORICAL_DATA without coordinates.
RegionalEntries == DOMAIN HISTORICAL_DATA \ StationCities

RegionalCitations ==
  UNION { {HISTORICAL_DATA[c].sources[key] : key \in KeySet} : c \in RegionalEntries }

\* Station c is at least as near to the query point as every station.
IsNearest(c) == \A o \in StationCities : DistTo(c) <= DistTo(o)

ScoreCalled == args.op = "calculate_severity_score" /\ Called

AbsentKeys == {k \in {"pm25", "temp", "hum", "wind"} : args.row[k] = None}

\* C10: calculate_severity_score returns a value in [0, 100] (0..10000
\* hundredths) for every row, whatever raw values are extreme or negative
\* and whichever of pm25, temp, hum, wind are None.
C10_ScoreInRange == ScoreCalled => (0 <= Ret /\ Ret <= 10000)

\* A row with pm25 and wind absent, a negative temperature and humidity and
\* cyclone risk has been scored: (20 + 15 + 18) / 55 * 100 = 96.36.
C10_Witness ==
  /\ ScoreCalled
  /\ AbsentKeys = {"pm25", "wind"}
  /\ args.row.temp = -500 /\ args.row.hum = -10
  /\ "cyclone_risk" \in DOMAIN args.row /\ args.row.cyclone_risk
  /\ Ret = 9636

\* Raw values on both sides of every threshold of one scoring ladder, with
\* negative and extreme ones.
Grid ==
  [ pm25 |-> { -100, 0, 350, 351, 600, 601, 1000, 1001, 1500, 1501, 2500, 2501, 100000 },
    temp |-> { -500, -51, -50, -1, 0, 49, 50, 99, 100, 250, 330, 331, 380, 381,
               430, 431, 480, 481, 900 },
    hum  |-> { -10, 149, 150, 249, 250, 349, 350, 500, 780, 781, 850, 851, 920,
               921, 1000 },
    wind |-> { -50, 0, 200, 201, 300, 301, 450, 451, 600, 601, 3000 } ]

\* The ends of the mid-range of temp and hum, where the ladder is lowest:
\* 10..33 degrees and 35..78 percent.
MidRange == [ temp |-> <<100, 330>>, hum |-> <<350, 780>> ]

\* The score of the scored row with row[key] set to v.
ScoreWith(key, v) == calculate_severity_score([args.row EXCEPT ![key] = v])

\* Non-decreasing in row[key] among the grid values from lo upwards.
NonDecreasingFrom(key, lo) ==
  \A v1, v2 \in Grid[key] :
    (lo <= v1 /\ v1 < v2) => ScoreWith(key, v1) <= ScoreWith(key, v2)

\* Non-increasing in row[key] among the grid values up to hi.
NonIncreasingUpTo(key, hi) ==
  \A v1, v2 \in Grid[key] :
    (v1 < v2 /\ v2 <= hi) => ScoreWith(key, v1) >= ScoreWith(key, v2)

\* C11: with the other fields of the row fixed, the score is non-decreasing
\* in pm25 and in wind over the whole range; in temp and in hum it is
\* non-decreasing from the lower end of the mid-range upwards and
\* non-increasing up to the upper end of the mid-range, so it never falls
\* as the value moves away from the mid-range on either side.
C11_MonotoneInBadness ==
  ScoreCalled =>
    /\ Ret = calculate_severity_score(args.row)
    /\ NonDecreasingFrom("pm25", -100)
    /\ NonDecreasingFrom("wind", -50)
    /\ NonDecreasingFrom("temp", MidRange.temp[1])
    /\ NonIncreasingUpTo("temp", MidRange.temp[2])
    /\ NonDecreasingFrom("hum", MidRange.hum[1])
    /\ NonIncreasingUpTo("hum", MidRange.hum[2])

\* A row with a cold temperature has been scored, and the score is strictly
\* higher than with the temperature in the mid-range and strictly lower
\* than with more pm25.
C11_Witness ==
  /\ ScoreCalled
  /\ args.row.temp = -500 /\ args.row.pm25 = 351 /\ args.row.wind = 100
  /\ Ret > ScoreWith("temp", 250)
  /\ Ret < ScoreWith("pm25", 2501)
  /\ ScoreWith("wind", 100) < ScoreWith("wind", 601)

Weight == [ pm25 |-> 25, temp |-> 20, hum |-> 15, wind |-> 20 ]

\* The band points of row[key], 0 when the parameter is None or missing.
BandPoints(row, key) ==
  IF dict_get(row, key, None) = None THEN 0
  ELSE IF key = "pm25" THEN pm25_points(row[key])
  ELSE IF key = "temp" THEN temp_points(row[key])
  ELSE IF key = "hum" THEN hum_points(row[key])
  ELSE wind_points(row[key])

PresentWeight(row, key) == IF dict_get(row, key, None) = None THEN 0 ELSE Weight[key]

Numerator(row) ==
  BandPoints(row, "pm25") + BandPoints(row, "temp") + BandPoints(row, "hum")
    + BandPoints(row, "wind") + (IF dict_get(row, "cyclone_risk", FALSE) THEN 18 ELSE 2)

Denominator(row) ==
  PresentWeight(row, "pm25") + PresentWeight(row, "temp") + PresentWeight(row, "hum")
    + PresentWeight(row, "wind") + 20

\* The scored row without the keys whose value is None.
WithoutAbsent == [k \in DOMAIN args.row \ AbsentKeys |-> args.row[k]]

\* C21: the score is 100 * (band points of the parameters that are not
\* None, plus the cyclone points) / (weights of exactly those parameters,
\* plus the cyclone weight 20), to the hundredth; the weights total 100
\* when all four parameters are present; a parameter that is None counts
\* as one that is missing from the row.
C21_Renormalized ==
  ScoreCalled =>
    /\ Ret * Denominator(args.row) <= 10000 * Numerator(args.row)
    /\ 10000 * Numerator(args.row) < (Ret + 1) * Denominator(args.row)
    /\ AbsentKeys = {} => Denominator(args.row) = 100
    /\ Denominator(args.row) = 100 - (IF "pm25" \in AbsentKeys THEN 25 ELSE 0)
                                   - (IF "temp" \in AbsentKeys THEN 20 ELSE 0)
                                   - (IF "hum" \in AbsentKeys THEN 15 ELSE 0)
                                   - (IF "wind" \in AbsentKeys THEN 20 ELSE 0)
    /\ Ret = calculate_severity_score(WithoutAbsent)

\* A row with humidity and wind absent has been scored over the weights
\* 25 + 20 + 20 = 65: (25 + 4 + 2) / 65 * 100 = 47.69.
C21_Witness ==
  /\ ScoreCalled
  /\ AbsentKeys = {"hum", "wind"}
  /\ args.row.pm25 = 2501 /\ args.row.temp = 250
  /\ "cyclone_risk" \in DOMAIN args.row /\ ~args.row.cyclone_risk
  /\ Denominator(args.row) = 65
  /\ Ret = 4769

(***************************************************************************)
(* Claims about the risk bands, checked under SpecBand.                    *)
(***************************************************************************)
BandCalled == args.op = "risk_bands" /\ Called

\* The band of a score when the lower end of a band belongs to it.
BandLowerInclusive(s) ==
  CASE s < 4000 -> "LOW"
    [] 4000 <= s /\ s < 6000 -> "MODERATE"
    [] 6000 <= s /\ s < 7500 -> "HIGH"
    [] s >= 7500 -> "CRITICAL"

\* The band of a score when the upper end of a band belongs to it.
BandUpperInclusive(s) ==
  CASE s <= 4000 -> "LOW"
    [] 4000 < s /\ s <= 6000 -> "MODERATE"
    [] 6000 < s /\ s <= 7500 -> "HIGH"
    [] s > 7500 -> "CRITICAL"

\* One of the two bandings.
Band(lower, s) == IF lower THEN BandLowerInclusive(s) ELSE BandUpperInclusive(s)

\* How many rows of the banded DataFrame are in band b.
RowsInBand(lower, b) ==
  Cardinality({i \in 1..Len(Ret.df) : Band(lower, Ret.df[i].severity_score) = b})

\* The markers, the summary counts, the PDF and the Excel export all band
\* the rows by the chosen banding.
AllBandedBy(lower) ==
  /\ \A i \in 1..Len(Ret.df) : Ret.markers[i] = Band(lower, Ret.df[i].severity_score)
  /\ Ret.summary = [critical_points |-> RowsInBand(lower, "CRITICAL"),
                    high_points     |-> RowsInBand(lower, "HIGH"),
                    moderate_points |-> RowsInBand(lower, "MODERATE"),
                    low_points      |-> RowsInBand(lower, "LOW")]
  /\ Ret.pdf_counts = [critical_count |-> RowsInBand(lower, "CRITICAL"),
                       high_count     |-> RowsInBand(lower, "HIGH"),
                       moderate_count |-> RowsInBand(lower, "MODERATE"),
                       low_count      |-> RowsInBand(lower, "LOW")]
  /\ Ret.excel_counts = << RowsInBand(lower, "CRITICAL"), RowsInBand(lower, "HIGH"),
                           RowsInBand(lower, "MODERATE"), RowsInBand(lower, "LOW") >>
  /\ \A b \in {"CRITICAL", "HIGH"} :
       Ret.pdf_zones[IF b = "CRITICAL" THEN "critical_points" ELSE "high_points"]
         = {i \in 1..Len(Ret.df) : Band(lower, Ret.df[i].severity_score) = b}
  /\ {z.point_id : z \in {Ret.excel_zones[k] : k \in 1..Len(Ret.excel_zones)}}
       = {i \in 1..Len(Ret.df) : Band(lower, Ret.df[i].severity_score) \in {"CRITICAL", "HIGH"}}
  /\ \A k \in 1..Len(Ret.excel_zones) :
       Ret.excel_zones[k].risk_level
         = Band(lower, Ret.df[Ret.excel_zones[k].point_id].severity_score)

FilterCalled == args.op = "table_filter" /\ Called

\* The band in which the risk distribution counts a score: the one of its
\* four conditions (lines 1098-1113) that the score satisfies.
CountedBands(s) ==
  (IF s > 7500 THEN {"CRITICAL"} ELSE {})
    \cup (IF s > 6000 /\ s <= 7500 THEN {"HIGH"} ELSE {})
    \cup (IF s > 4000 /\ s <= 6000 THEN {"MODERATE"} ELSE {})
    \cup (IF s <= 4000 THEN {"LOW"} ELSE {})

\* The multiselect option of a band.
OptionOf(b) ==
  CASE b = "CRITICAL" -> "CRITICAL (>75)"
    [] b = "HIGH" -> "HIGH (60-75)"
    [] b = "MODERATE" -> "MODERATE (40-60)"
    [] b = "LOW" -> "LOW (<40)"

RunCompleted == pc = "idle" /\ outcome = "completed"

\* Row i of the run was made from the i-th sampled point.
RowOfPoint(i) ==
  /\ data[i].point_id = i
  /\ data[i].lat = pts[i].y
  /\ data[i].lon = pts[i].x

\* Some live request failed and some live request succeeded in this run.
MixedLiveRequests ==
  /\ \E i \in 1..Len(data_source_log) :
       data_source_log[i] \in {"OpenAQ failed", "WAQI failed", "Open-Meteo failed"}
  /\ \E i \in 1..Len(data_source_log) :
       data_source_log[i] = "Open-Meteo real-time data retrieved"

\* C1 (as stated): each row's lat and lon are the latitude and longitude of
\* its sample point in the (lat, lon) convention of the route vertices, so
\* the first row is at the first route vertex and the last row at the last.
C1_Original ==
  pc = "loop" =>
    /\ \A i \in 1..Len(data) :
         data[i].lat = pts[i].x /\ data[i].lon = pts[i].y
    /\ Len(data) >= 1 =>
         <<data[1].lat, data[1].lon>> = user_line[1]
    /\ Len(data) = Len(pts) =>
         <<data[Len(data)].lat, data[Len(data)].lon>> = user_line[Len(user_line)]

\* C9: an analysis run never ends with an exception, whichever live
\* requests fail; while it runs the rows made so far are those of the first
\* idx sampled points in order, with point_id 1, 2, ...; and the finished
\* run stores exactly one row per sampled point.
C9_OneRowPerPoint ==
  /\ outcome # "exception"
  /\ runs > 0 =>
       /\ Len(data) = idx /\ idx <= Len(pts)
       /\ \A i \in 1..Len(data) : RowOfPoint(i)
  /\ RunCompleted =>
       /\ analysis_df = data
       /\ Len(analysis_df) = Len(pts)

\* A real-time run over four sample points has finished, with failed and
\* successful live requests on the way.
C9_Witness ==
  /\ RunCompleted
  /\ use_realtime
  /\ Len(analysis_df) = 4
  /\ MixedLiveRequests
  /\ \A i \in 1..4 : analysis_df[i].point_id = i

\* The preference read by the last run is Historical or Fast Mode.
NotRealTime == data_source # "Real-time (with fallback)"

SourceField ==
  [pm25 |-> "source_pm25", pm10 |-> "source_pm10", temp |-> "source_temp",
   hum |-> "source_hum", wind |-> "source_wind"]

\* Every value and every source_<param> of the row is what the historical
\* table gives at the row's coordinates.
HistoricalRow(row) ==
  \E h \in {get_nearest_historical_data(row.lat, row.lon)} :
    /\ \A key \in KeySet :
         /\ row[key] = h[key]
         /\ row[SourceField[key]] = h.source_detail[key]
         /\ ~is_live_source(row[SourceField[key]])
    /\ row.data_source = <<"Historical Data (2022-2024)", h.primary_source>>

C13_Rows ==
  (runs > 0 /\ NotRealTime) =>
    /\ ~use_realtime
    /\ data_source_log = << >>
    /\ \A i \in 1..Len(data) : HistoricalRow(data[i])

\* C13: in a run whose data-source preference is Historical or Fast Mode,
\* use_realtime is False, no step calls get_air_quality_realtime or
\* get_weather_realtime (nothing is logged, nothing enters their caches),
\* and every value and every source_<param> of every row comes from the
\* historical table.
C13_HistoricalOnly ==
  /\ []C13_Rows
  /\ [][NotRealTime' => /\ aq_cache' = aq_cache
                         /\ weather_cache' = weather_cache
                         /\ data_source_log' = << >>]_vars

\* A run with the Historical preference has finished with four rows, after
\* an earlier real-time run had filled the caches.
C13_Witness ==
  /\ RunCompleted
  /\ data_source = "Historical (2022-2024)"
  /\ runs = 2
  /\ aq_cache # {} /\ weather_cache # {}
  /\ Len(analysis_df) = 4

\* A (lat, lon) pair with the latitude in [-90, 90] and the longitude in
\* [-180, 180].

\* A (lat, lon) pair of a route, in 1e-4 degrees, is a position on Earth.
InRange(c) ==
  /\ -900000 <= c[1] /\ c[1] <= 900000
  /\ -1800000 <= c[2] /\ c[2] <= 1800000

OutOfRangeRoute ==
  \E k \in 1..Len(user_line) : ~InRange(user_line[k])

\* C16 (as stated): a route with a coordinate outside latitude [-90, 90] or
\* longitude [-180, 180] is rejected before sampling: the run never
\* samples it and no analysis rows are stored while it is the route.
C16_Original ==
  OutOfRangeRoute => (pc = "idle" /\ pts = << >> /\ analysis_df = << >>)

\* What the code does with such a route: a run completes with one row per
\* sample point of the out-of-range line.
C16_RowsProduced ==
  /\ OutOfRangeRoute
  /\ outcome = "completed"
  /\ pc = "idle"
  /\ Len(analysis_df) = Len(pts)
  /\ Len(analysis_df) >= 2

\* The arguments (lat, lon) of the live calls for the sample point that the
\* loop is at.
PointKey == <<pts[idx + 1].y, pts[idx + 1].x>>

\* The cache holds a return value for the key.
Held(cache, key) == \E e \in cache : e.key = key

HeldValue(cache, key) == (CHOOSE e \in cache : e.key = key).value

\* This step resolves the point the loop is at in a real-time run.
Resolving ==
  /\ pc = "loop" /\ idx < Len(pts) /\ use_realtime
  /\ (idx' = idx + 1 \/ pc' = "idle")

\* What this step appended to data_source_log.
Logged == SubSeq(data_source_log', Len(data_source_log) + 1, Len(data_source_log'))

HasLogged(message) == \E i \in 1..Len(Logged) : Logged[i] = message

\* No function body has run twice for the same arguments since their entry
\* last expired, and the caches hold one value for each key, the value of
\* the one execution.
C28_AtMostOnce ==
  /\ \A c \in live_calls : c.calls <= 1
  /\ \A cache \in {aq_cache, weather_cache} :
       \A e1 \in cache, e2 \in cache : e1.key = e2.key => e1 = e2
  /\ \A e \in aq_cache :
       [fn |-> "get_air_quality_realtime", key |-> e.key, calls |-> 1] \in live_calls
  /\ \A e \in weather_cache :
       [fn |-> "get_weather_realtime", key |-> e.key, calls |-> 1] \in live_calls

\* A resolve of a point whose arguments are in a cache does not run that
\* function (the cache is unchanged and no attempt is logged); the row is
\* the one get_environmental_data makes of the cached values; and when the
\* cached value is None the row has the historical values.
C28_Reuse ==
  Resolving =>
    LET key == PointKey
        lat == key[1]
        lon == key[2]
    IN /\ Held(aq_cache, key) =>
            /\ aq_cache' = aq_cache
            /\ ~HasLogged("Attempting real-time AQ")
       /\ Held(weather_cache, key) =>
            /\ weather_cache' = weather_cache
            /\ ~HasLogged("Attempting real-time weather")
       /\ idx' = idx + 1 =>
            LET row == data'[idx + 1]
                historical == get_nearest_historical_data(lat, lon)
            IN /\ Held(aq_cache, key) /\ Held(weather_cache, key) =>
                    row = analysis_row(idx, lat, lon,
                            get_environmental_data(lat, lon, TRUE,
                              HeldValue(aq_cache, key), HeldValue(weather_cache, key)))
               /\ Held(aq_cache, key) /\ HeldValue(aq_cache, key) = NoneDict =>
                    /\ row.pm25 = historical.pm25 /\ row.pm10 = historical.pm10
                    /\ ~is_live_source(row.source_pm25)
                    /\ ~is_live_source(row.source_pm10)
               /\ Held(weather_cache, key) /\ HeldValue(weather_cache, key) = NoneDict =>
                    /\ row.temp = historical.temp /\ row.hum = historical.hum
                    /\ row.wind = historical.wind
                    /\ ~is_live_source(row.source_temp)

\* C28: while its cache entry has not expired, the body of
\* get_air_quality_realtime and of get_weather_realtime runs at most once
\* for a given (lat, lon), and every later resolve of that point reuses the
\* stored result, None included: a point whose live fetch failed resolves
\* to the historical values in later runs without a new request.
C28_FetchedOncePerLifetime ==
  /\ []C28_AtMostOnce
  /\ [][C28_Reuse]_vars

\* The second run of a session is a real-time run, no entry has expired,
\* the first point has been resolved without any attempt being logged, the
\* cached air-quality result of that point is None and its row carries the
\* historical PM2.5.
C28_Witness ==
  /\ runs = 2 /\ use_realtime /\ expired = 0
  /\ pc = "loop" /\ idx >= 1
  /\ data_source_log = << >>
  /\ Held(aq_cache, <<pts[1].y, pts[1].x>>)
  /\ HeldValue(aq_cache, <<pts[1].y, pts[1].x>>) = NoneDict
  /\ ~is_live_source(data[1].source_pm25)

\* An entry has expired and the function has run again for its arguments:
\* the point is fetched a second time in the session, once per lifetime.
C28_RefetchedAfterExpiry ==
  /\ expired > 0 /\ runs = 2 /\ use_realtime
  /\ pc = "loop" /\ idx >= 1
  /\ \E i \in 1..Len(data_source_log) : data_source_log[i] = "Attempting real-time AQ"
  /\ Held(aq_cache, <<pts[1].y, pts[1].x>>)

\* An export is offered only when an analysis has completed since the
\* session started or was last cleared.
ExportAfterAnalysis ==
  report # << >> => (analysis_df # << >> /\ analysis_route # << >>)

\* The analysis loop runs only with a route in the session.
AnalysisNeedsRoute == pc = "loop" => user_line # << >>

\* The stored analysis is the analysis of the route the session holds, and
\* so is every export.
AnalysisOfCurrentRoute ==
  /\ analysis_df # << >> => analysis_route = user_line
  /\ report # << >> => analysis_route = report.user_line

\* C29 (as stated): over any sequence of route definitions and changes,
\* Analyze, PDF export, Excel export and Clear Session State, an export is
\* produced only after a completed analysis, an analysis runs only with a
\* route defined, and a stored analysis is always that of the route now in
\* the session, so that no export reports the rows of a route that has
\* since been changed.
C29_Original ==
  /\ ExportAfterAnalysis
  /\ AnalysisNeedsRoute
  /\ AnalysisOfCurrentRoute

\* What the code does after a route change: the PDF is made of the rows
\* stored for the earlier route, none of which lies on the route that the
\* session holds when the report is produced.
C29_StaleExport ==
  /\ report # << >>
  /\ report.kind = "pdf"
  /\ report.df = analysis_df
  /\ report.user_line = user_line
  /\ analysis_route # user_line
  /\ \A i \in 1..Len(report.df) :
       \A p \in {sample_points(user_line, s)[k] :
                    s \in SampleSpacings, k \in 1..Len(sample_points(user_line, 20000))} :
         <<report.df[i].lat, report.df[i].lon>> # <<p.y, p.x>>

(***************************************************************************)
(* Claims about the row of one sample point, checked under SpecRow.        *)
(***************************************************************************)
RowCalled == args.op = "analysis_row" /\ Called

\* The row is in the critical zone of the reports (severity_score > 75).
CriticalRow == Ret.severity_score > 7500

PremiumOrCustom ==
  { INSULATOR_SPECS["hydrophobic"].name, INSULATOR_SPECS["polymer_composite"].name,
    "Custom Required" }

\* C22 (as stated): for every row whose severity_score is above 75 the
\* recommended insulator is Hydrophobic Silicone, Polymer Composite or
\* "Custom Required"; Standard Ceramic is never recommended for it.
C22_Original ==
  (RowCalled /\ CriticalRow) => Ret.recommended_insulator \in PremiumOrCustom

\* What the code does: a row in the cyclone zone with pm25 70, temp -10,
\* hum 95 and wind 35 scores 79 and is given the Standard Ceramic
\* insulator at cost factor 1.0.
C22_CriticalCeramic ==
  /\ RowCalled /\ CriticalRow
  /\ Ret.pm25 = 700 /\ Ret.temp = -100 /\ Ret.hum = 950 /\ Ret.wind = 350
  /\ Ret.cyclone_risk
  /\ Ret.severity_score = 7900
  /\ Ret.recommended_insulator = INSULATOR_SPECS["standard_ceramic"].name
  /\ Ret.insulator_cost_factor = 10

\* Entry key of INSULATOR_SPECS tolerates the row's temp, pm25 and wind
\* (wind in m/s against wind_max in km/h).
Fits(key) ==
  /\ INSULATOR_SPECS[key].temp_range[1] <= Ret.temp
  /\ Ret.temp <= INSULATOR_SPECS[key].temp_range[2]
  /\ Ret.pm25 <= INSULATOR_SPECS[key].pollution_max
  /\ Ret.wind * 36 <= INSULATOR_SPECS[key].wind_max * 100

FittingEntries == {key \in DOMAIN INSULATOR_SPECS : Fits(key)}

Dec(digits) ==
  LET ones == {i \in 1..Len(digits) : digits[i] = 1}
      p    == CHOOSE i \in ones : \A j \in ones : j <= i
  IN SubSeq(digits, 1, p - 1) \o <<0>> \o [i \in 1..(Len(digits) - p) |-> 1]

\* The double just above and just below x (x not a power of two).
next_double(x) == [m |-> Inc(x.m), e |-> x.e]

prev_double(x) == [m |-> Dec(x.m), e |-> x.e]

\* The double that line 794 returned for the row.
RowScoreDouble == severity_score_double(Ret)

\* The point sums whose quotient by 100, multiplied by 100, is not the
\* sum again in double arithmetic (28.000000000000004,
\* 28.999999999999996, 55.00000000000001, 56.00000000000001,
\* 56.99999999999999, 57.99999999999999).
InexactSums == { 28, 29, 55, 56, 57, 58 }

\* C24 (as stated): in every row of an analysis run, all five parameters
\* present, severity_score is a whole number between 20 and 98; the
\* max_score > 0 guard holds because the cyclone term weighs 20.
C24_Original ==
  RowCalled =>
    /\ Denominator(Ret) > 0
    /\ \E n \in 20..98 : RowScoreDouble = float_from_int(n)

\* C24 (amended): in every such row max_score is 100 and severity_score is
\* (points / 100) * 100 for a whole number of points between 20 and 98:
\* never 0, never 100, equal to that whole number to the hundredth and at
\* most one unit in the last place of the double away from it, and
\* exactly whole unless the points are 28, 29, 55, 56, 57 or 58.
C24_NearWholeScore ==
  RowCalled =>
    /\ Denominator(Ret) = 100
    /\ \E n \in 20..98 :
         /\ Ret.severity_score = 100 * n
         /\ Numerator(Ret) = n
         /\ RowScoreDouble \in { float_from_int(n), next_double(float_from_int(n)),
                                 prev_double(float_from_int(n)) }
         /\ n \notin InexactSums => RowScoreDouble = float_from_int(n)

\* A row of 14 + 16 + 5 + 4 + 18 = 57 points: its score is the double just
\* below 57.
C24_Witness ==
  /\ RowCalled
  /\ Ret.pm25 = 700 /\ Ret.temp = 470 /\ Ret.hum = 500 /\ Ret.wind = 100
  /\ Ret.cyclone_risk
  /\ Ret.severity_score = 5700
  /\ RowScoreDouble = prev_double(float_from_int(57))
  /\ RowScoreDouble # float_from_int(57)
=============================================================================
